---- MODULE Spec2Model ----
(***************************************************************************)
(* A model of pymw's request/response core (src/pymw/_api.py): the token   *)
(* cache, the error dispatcher, post, post_and_continue and the query      *)
(* facade, run against a nondeterministic MediaWiki server.                *)
(*                                                                         *)
(* The client is a call stack of frames.  Every frame is a record with the *)
(* function it runs (fn) and its position in that function (pc).  A Python *)
(* dict is a TLA+ function whose domain is the set of its keys; a Python   *)
(* str is a sequence of symbols, so that split, join, find and int are     *)
(* computed and not assumed.                                               *)
(***************************************************************************)
EXTENDS Integers, Sequences, FiniteSets, TLC

\* ------------------------------------------------------------ bounds
\* requests handed to the transport in one behaviour
MaxReq == 5
\* requests handed to the transport in one behaviour of a session of actions
MaxSessionReq == 6
\* requests handed to the transport in one behaviour of a resumed list query
MaxResumeReq == 7
\* error responses the server gives in one behaviour
MaxErr == 2
\* operations the caller starts in one behaviour
MaxOps == 2
\* items (or property values) the server puts in one round
MaxItems == 1
\* values of the titles parameter of the caller's queries
MaxTitles == 5
\* queries the caller iterates in one behaviour
MaxQueries == 1
\* rounds the server splits a prop query into
MaxRounds == 3

\* ------------------------------------------------------------ values
None == "None"

\* a str of one symbol
V(s) == <<s>>

\* None where a str is expected (an argument left out)
NoValue == <<>>

Min(a, b) == IF a < b THEN a ELSE b

\* ------------------------------------------------------------ dict
EmptyDict == <<>>

\* d |= e
DictUpdate(d, e) ==
    [k \in DOMAIN d \cup DOMAIN e |-> IF k \in DOMAIN e THEN e[k] ELSE d[k]]

\* d[k] = v
DictSet(d, k, v) == DictUpdate(d, k :> v)

\* d.pop(k, None)
DictPop(d, k) == [x \in DOMAIN d \ {k} |-> d[x]]

\* d.setdefault(k, v), the dict afterwards
DictSetDefault(d, k, v) == IF k \in DOMAIN d THEN d ELSE DictSet(d, k, v)

\* d.get(k), None when absent
DictGet(d, k) == IF k \in DOMAIN d THEN d[k] ELSE None

\* ------------------------------------------------------------ str
\* s.find(c, start): the lowest 0-based index >= start of symbol c, -1 if none
StrFind(s, c, start) ==
    LET hits == {i \in start .. Len(s) - 1 : s[i + 1] = c}
    IN  IF hits = {} THEN -1
        ELSE CHOOSE i \in hits : \A j \in hits : i <= j

\* s[a:b] of Python, b < 0 counting from the end
StrSlice(s, a, b) ==
    LET e == IF b < 0 THEN Len(s) + b ELSE Min(b, Len(s))
    IN  IF a >= e THEN <<>> ELSE SubSeq(s, a + 1, e)

\* s.split(sep)
RECURSIVE StrSplit(_, _)
StrSplit(s, sep) ==
    LET i == StrFind(s, sep, 0)
    IN  IF i = -1 THEN <<s>>
        ELSE <<SubSeq(s, 1, i)>> \o StrSplit(SubSeq(s, i + 2, Len(s)), sep)

\* sep.join(parts)
RECURSIVE StrJoin(_, _)
StrJoin(parts, sep) ==
    IF Len(parts) = 0 THEN <<>>
    ELSE IF Len(parts) = 1 THEN parts[1]
    ELSE parts[1] \o <<sep>> \o StrJoin(Tail(parts), sep)

\* int(s) for a str of decimal digits
RECURSIVE StrInt(_)
StrInt(s) ==
    IF Len(s) = 0 THEN 0
    ELSE 10 * StrInt(SubSeq(s, 1, Len(s) - 1))
         + (CHOOSE d \in 0 .. 9 : ToString(d) = s[Len(s)])

\* ------------------------------------------------------------ tables
LOGIN_REQUIRED_ACTIONS == {"patrol", "upload"}

\* ACTION_PARAM_TOKEN[action]: (token parameter, token type), (None, None)
\* for an action the table does not list
ACTION_PARAM_TOKEN(action) ==
    CASE action = "edit" -> <<"token", "csrf">>
      [] action = "login" -> <<"lgtoken", "login">>
      [] action = "logout" -> <<"token", "csrf">>
      [] action = "patrol" -> <<"token", "patrol">>
      [] action = "upload" -> <<"token", "csrf">>
      [] action = "watch" -> <<"token", "watch">>
      [] OTHER -> <<None, None>>

\* the parameters post forces on every request
ForcedParams ==
    [format |-> V("json"), formatversion |-> V("2"),
     errorformat |-> V("plaintext"), maxlag |-> V("5")]

\* load_lgname_lgpass: the configured credentials
ConfigCredentials == <<V("U"), V("P")>>

\* the credentials of another user, which a caller passes to login
OtherCredentials == <<V("W"), V("Q")>>

\* ------------------------------------------------------------ state
VARIABLES
    user,      \* API._user: the authenticated user, None when there is none
    tokens,    \* API.tokens: the TokenManager dict, token type -> token
    stack,     \* the call stack, the caller first
    gen,       \* the frames of a generator the caller holds suspended
    ret,       \* the value the last call returned (or the generator yielded)
    status,    \* how the caller's last operation ended
    raised,    \* what the exception that ended it carries
    sent,      \* the parameters of the last request handed to the transport
    nreq,      \* requests handed to the transport so far
    nerr,      \* error responses the server gave so far
    nops,      \* operations the caller started so far
    nquery,    \* queries the caller started to iterate so far
    minted,    \* tokens the server minted so far
    nitem,     \* items the server put in query rounds of the running query
    slept,     \* the arguments of the calls of sleep, in order
    out,       \* what the running generator yielded to the caller, in order
    atsend,    \* the user and the token cache when the last request was sent
    loggedat,  \* the requests sent and tokens minted at the last login, and
               \* the tokens minted (cleared) at the last login or logout
    invalid,   \* the token types deleted from the cache and not fetched since
    acc,       \* page id -> the values served for it in the open prop batch
    due        \* the pages the completed prop batches hold, in server order

vars ==
    <<user, tokens, stack, gen, ret, status, raised, sent, nreq, nerr, nops,
      nquery, minted, nitem, slept, out, atsend, loggedat, invalid, acc,
      due>>

Depth == Len(stack)
Top == stack[Depth]
At(f, p) == stack # <<>> /\ Top.fn = f /\ Top.pc = p

\* data.get('action') as the action's name
ActionOf(data) == IF "action" \in DOMAIN data THEN data["action"][1] ELSE None

\* ------------------------------------------------------------ frames
\* nsent and nslept keep, for the properties, the number of requests and of
\* sleeps when this call sent its request; nerrs the number of error
\* responses when its response arrived; nreq0 and mint0 the number of
\* requests and of tokens minted when it began, anon whether it began a
\* login-required action with no user authenticated, and given the token
\* parameter its dict held then
PostFrame(dref, via, failed) ==
    [fn |-> "post", pc |-> "start", dref |-> dref, via |-> via,
     failed |-> failed, resp |-> EmptyDict, i |-> 0, nsent |-> 0,
     nslept |-> 0, nerrs |-> 0, nreq0 |-> 0, mint0 |-> 0, anon |-> FALSE,
     given |-> NoValue]

\* login; rejected is the login token of the call that repeats itself in
\* this one, and nreq0, nerr0 and cached0 keep, for the properties, the
\* number of requests and of error responses and whether a login token is
\* cached when the call begins
LoginFrame(lgname, lgpassword, params, rejected) ==
    [fn |-> "login", pc |-> "start", lgname |-> lgname,
     lgpassword |-> lgpassword, data |-> params, rejected |-> rejected,
     nreq0 |-> nreq, nerr0 |-> nerr, cached0 |-> "login" \in DOMAIN tokens]

\* TokenManager.__missing__; for the properties, nerr0 keeps the number of
\* error responses when the fetch began and nfetch counts the requests for
\* a token of this type sent during the fetch
TokensFrame(token_type) ==
    [fn |-> "tokens", pc |-> "start", type |-> token_type, nerr0 |-> nerr,
     nfetch |-> 0]

\* query_meta; nreq0 and nerr0 keep, for the properties, the number of
\* requests and of error responses when the call begins
QueryMetaFrame(meta, params) ==
    [fn |-> "query_meta", pc |-> "start", meta |-> meta, data |-> params,
     nreq0 |-> nreq, nerr0 |-> nerr]

QueryListFrame(list, params) ==
    [fn |-> "query_list", pc |-> "start", list |-> list, data |-> params,
     items |-> <<>>]

QueryPropFrame(prop, params) ==
    [fn |-> "query_prop", pc |-> "start", prop |-> prop, data |-> params,
     has_batch |-> FALSE, batch |-> <<>>, items |-> <<>>]

PatrolFrame(params) ==
    [fn |-> "patrol", pc |-> "start", data |-> params]

\* the caller's own api.post(data)
CallerFrame(data) ==
    [fn |-> "caller", pc |-> "start", data |-> data]

LogoutFrame ==
    [fn |-> "logout", pc |-> "start", data |-> EmptyDict]

\* post_and_continue; has_prev is "prev_continue is not None"; for the
\* properties, was_prev keeps the previous round's continuation object, nreq0
\* and nerr0 the number of requests and of error responses when the
\* generator is made, and nyield counts the bodies it yielded
PacFrame(dref) ==
    [fn |-> "pac", pc |-> "start", dref |-> dref, has_prev |-> FALSE,
     prev_continue |-> EmptyDict, was_prev |-> EmptyDict, json |-> EmptyDict,
     error |-> EmptyDict, param |-> None, orig |-> NoValue,
     param_values |-> <<>>, limit |-> 0, i |-> 0, nreq0 |-> nreq,
     nerr0 |-> nerr, nyield |-> 0]

\* ------------------------------------------------------------ control
\* a call returns: the frame is popped and the caller finds the value in ret
Return(v) ==
    /\ stack' = SubSeq(stack, 1, Depth - 1)
    /\ ret' = v
    /\ status' = IF Depth = 1 THEN "ok" ELSE status
    /\ UNCHANGED raised

\* the frames that catch TooManyValuesError: post_and_continue inside its try
Catchers == {j \in 1 .. Depth : stack[j].fn = "pac" /\ stack[j].pc = "posting"}

\* an exception is raised in the running frame: TooManyValuesError unwinds to
\* the nearest post_and_continue that is inside its try, and any exception
\* that nothing catches ends the caller's operation
Raise(exc, payload) ==
    IF exc = "TooManyValuesError" /\ Catchers # {}
    THEN LET j == CHOOSE j \in Catchers : \A k \in Catchers : k <= j
         IN  /\ stack' = [SubSeq(stack, 1, j) EXCEPT
                             ![j].pc = "caught", ![j].error = payload]
             /\ UNCHANGED <<status, raised>>
    ELSE /\ stack' = <<>>
         /\ status' = exc
         /\ raised' = payload

\* ------------------------------------------------------------ post
\* the frame below shares the caller's dict: data is the dict object
Data(dref) == stack[dref].data

\* a variant of Forced in which the values the dict holds already win
ForcedAsDefaults(data) == DictUpdate(ForcedParams, data)

\* post, lines 301-306: data |= the four parameters
Forced(data) == DictUpdate(data, ForcedParams)

\* a variant of PostStart that goes on to the token without a login
PostStartWithoutLogin ==
    /\ At("post", "start")
    /\ LET d == Top.dref
           data == Forced(Data(d))
           action == ActionOf(data)
           param == ACTION_PARAM_TOKEN(action)[1]
           st == [stack EXCEPT
                     ![d].data = data,
                     ![Depth].pc = "token",
                     ![Depth].nreq0 = nreq,
                     ![Depth].mint0 = minted,
                     ![Depth].anon =
                         action \in LOGIN_REQUIRED_ACTIONS /\ user = None,
                     ![Depth].given =
                         IF param \in DOMAIN data THEN data[param]
                         ELSE NoValue]
       IN  stack' = st
    /\ UNCHANGED <<user, tokens, gen, ret, status, raised, sent, nreq, nerr,
                   nops, nquery, minted, nitem, slept, out, atsend, loggedat,
                   invalid, acc, due>>

\* post, lines 301-306: force the four parameters, then _prepare_action
\* up to its login (lines 283-288)
PostStart ==
    /\ At("post", "start")
    /\ LET d == Top.dref
           data == Forced(Data(d))
           action == ActionOf(data)
           param == ACTION_PARAM_TOKEN(action)[1]
           st == [stack EXCEPT
                     ![d].data = data,
                     ![Depth].pc = "token",
                     ![Depth].nreq0 = nreq,
                     ![Depth].mint0 = minted,
                     ![Depth].anon =
                         action \in LOGIN_REQUIRED_ACTIONS /\ user = None,
                     ![Depth].given =
                         IF param \in DOMAIN data THEN data[param]
                         ELSE NoValue]
       IN  stack' = IF action \in LOGIN_REQUIRED_ACTIONS /\ user = None
                    THEN Append(st, LoginFrame(NoValue, NoValue, EmptyDict, NoValue))
                    ELSE st
    /\ UNCHANGED <<user, tokens, gen, ret, status, raised, sent, nreq, nerr,
                   nops, nquery, minted, nitem, slept, out, atsend, loggedat,
                   invalid, acc, due>>

\* _prepare_action, lines 290-292: data.setdefault(param, self.tokens[type]);
\* the default is evaluated before setdefault, so a miss fetches the token
\* also when data holds the parameter
PostToken ==
    /\ At("post", "token")
    /\ LET d == Top.dref
           action == ActionOf(Data(d))
           param == ACTION_PARAM_TOKEN(action)[1]
           token_type == ACTION_PARAM_TOKEN(action)[2]
       IN  IF action = None \/ param = None
           THEN stack' = [stack EXCEPT ![Depth].pc = "send"]
           ELSE IF token_type \in DOMAIN tokens
           THEN stack' = [stack EXCEPT
                    ![d].data = DictSetDefault(Data(d), param, tokens[token_type]),
                    ![Depth].pc = "send"]
           ELSE stack' = Append([stack EXCEPT ![Depth].pc = "tokret"],
                                TokensFrame(token_type))
    /\ UNCHANGED <<user, tokens, gen, ret, status, raised, sent, nreq, nerr,
                   nops, nquery, minted, nitem, slept, out, atsend, loggedat,
                   invalid, acc, due>>

\* line 292 after the token fetch returned
PostTokenRet ==
    /\ At("post", "tokret")
    /\ LET d == Top.dref
           param == ACTION_PARAM_TOKEN(ActionOf(Data(d)))[1]
       IN  stack' = [stack EXCEPT
               ![d].data = DictSetDefault(Data(d), param, ret),
               ![Depth].pc = "send"]
    /\ UNCHANGED <<user, tokens, gen, ret, status, raised, sent, nreq, nerr,
                   nops, nquery, minted, nitem, slept, out, atsend, loggedat,
                   invalid, acc, due>>

\* the request req asks for a token of the type token_type
IsTokenFetch(req, token_type) ==
    /\ {"meta", "type"} \subseteq DOMAIN req
    /\ req["meta"] = V("tokens")
    /\ req["type"] = V(token_type)

\* the stack after the request req is counted in the token fetch that sends
\* it, the innermost one in progress
CountFetch(req) ==
    [j \in 1 .. Depth |->
        IF /\ stack[j].fn = "tokens"
           /\ \A k \in j + 1 .. Depth : stack[k].fn # "tokens"
           /\ IsTokenFetch(req, stack[j].type)
        THEN [stack[j] EXCEPT !.nfetch = @ + 1]
        ELSE stack[j]]

\* a variant of AssertUser that keeps an assertuser the dict holds already
AssertUserAsDefault(data, u) ==
    IF u # None THEN DictSetDefault(data, "assertuser", V(u)) ELSE data

\* lines 307-308: data['assertuser'] = self._user when a user is authenticated
AssertUser(data, u) ==
    IF u # None THEN DictSet(data, "assertuser", V(u)) ELSE data

\* lines 307-310: assertuser, then the request goes to the transport, which
\* takes up to max requests in one behaviour
PostSendUpTo(max) ==
    /\ At("post", "send")
    /\ nreq < max
    /\ LET d == Top.dref
           data == AssertUser(Data(d), user)
       IN  /\ stack' = [CountFetch(data) EXCEPT
                            ![d].data = data, ![Depth].pc = "await",
                            ![Depth].nsent = nreq + 1,
                            ![Depth].nslept = Len(slept)]
           /\ sent' = data
    /\ nreq' = nreq + 1
    /\ atsend' = [user |-> user, tokens |-> tokens]
    /\ UNCHANGED <<loggedat, user, tokens, gen, ret, status, raised, nerr,
                   nops, nquery, minted, nitem, slept, out, invalid, acc,
                   due>>

\* post's request in a list or prop query
PostSend == PostSendUpTo(MaxReq)

\* post's request in a session of actions
PostSendSession == PostSendUpTo(MaxSessionReq)

\* the errors of the response the running post received
Errors == Top.resp.json["errors"]
HasErrors == "errors" \in DOMAIN Top.resp.json

\* lines 315-317: a response without errors is returned
PostReturn ==
    /\ At("post", "got")
    /\ ~HasErrors
    /\ Return(Top.resp.json)
    /\ UNCHANGED <<user, tokens, gen, sent, nreq, nerr, nops, nquery, minted,
                   nitem, slept, out, atsend, loggedat, invalid, acc, due>>

\* _handle_api_errors, lines 174-181: the error at hand and its handler
ErrorAt == Errors[Top.i]
Dispatching(code) ==
    /\ At("post", "got")
    /\ HasErrors
    /\ Top.i <= Len(Errors)
    /\ ErrorAt.code = code

HandledCodes ==
    {"badtoken", "login-required", "maxlag", "notloggedin", "toomanyvalues"}

\* lines 176-179: no _handle_<code>_error method: the next error
HandleNone ==
    /\ At("post", "got")
    /\ HasErrors
    /\ Top.i <= Len(Errors)
    /\ ErrorAt.code \notin HandledCodes
    /\ stack' = [stack EXCEPT ![Depth].i = @ + 1]
    /\ UNCHANGED <<user, tokens, gen, ret, status, raised, sent, nreq, nerr,
                   nops, nquery, minted, nitem, slept, out, atsend, loggedat,
                   invalid, acc, due>>

\* a variant of RaiseAPIError whose exception carries the last error alone
RaiseAPIErrorWithLast ==
    /\ At("post", "got")
    /\ HasErrors
    /\ Top.i > Len(Errors)
    /\ Raise("APIError", <<Errors[Len(Errors)]>>)
    /\ UNCHANGED <<user, tokens, gen, ret, sent, nreq, nerr, nops, nquery,
                   minted, nitem, slept, out, atsend, loggedat, invalid, acc,
                   due>>

\* line 185: no handler gave a result
RaiseAPIError ==
    /\ At("post", "got")
    /\ HasErrors
    /\ Top.i > Len(Errors)
    /\ Raise("APIError", Errors)
    /\ UNCHANGED <<user, tokens, gen, ret, sent, nreq, nerr, nops, nquery,
                   minted, nitem, slept, out, atsend, loggedat, invalid, acc,
                   due>>

\* a variant of HandleBadtoken that empties the token cache
HandleBadtokenClearing ==
    /\ Dispatching("badtoken")
    /\ tokens' = EmptyDict
    /\ invalid' = invalid \cup DOMAIN tokens
    /\ stack' = [stack EXCEPT ![Depth].i = @ + 1]
    /\ UNCHANGED <<user, gen, ret, status, raised, sent, nreq, nerr, nops,
                   nquery, minted, nitem, slept, out, atsend, loggedat, acc,
                   due>>

\* a variant of HandleBadtoken that submits the request again as the
\* handlers of the other recoverable errors do
HandleBadtokenRetrying ==
    /\ Dispatching("badtoken")
    /\ tokens' = DictPop(tokens, ACTION_PARAM_TOKEN(ErrorAt.module)[2])
    /\ invalid' = invalid \cup {ACTION_PARAM_TOKEN(ErrorAt.module)[2]}
    /\ stack' = Append([stack EXCEPT ![Depth].pc = "retried"],
                       PostFrame(Top.dref, "badtoken", Data(Top.dref)))
    /\ UNCHANGED <<user, gen, ret, status, raised, sent, nreq, nerr, nops,
                   nquery, minted, nitem, slept, out, atsend, loggedat, acc,
                   due>>

\* _handle_badtoken_error, lines 190-192: del self.tokens[token_type] raises
\* KeyError when the type is not cached; otherwise the handler returns None
\* and the dispatcher goes to the next error
HandleBadtoken ==
    /\ Dispatching("badtoken")
    /\ LET token_type == ACTION_PARAM_TOKEN(ErrorAt.module)[2]
       IN  IF token_type \in DOMAIN tokens
           THEN /\ tokens' = DictPop(tokens, token_type)
                /\ invalid' = invalid \cup {token_type}
                /\ stack' = [stack EXCEPT ![Depth].i = @ + 1]
                /\ UNCHANGED <<status, raised>>
           ELSE /\ Raise("KeyError", token_type)
                /\ UNCHANGED <<tokens, invalid>>
    /\ UNCHANGED <<user, gen, ret, sent, nreq, nerr, nops, nquery, minted,
                   nitem, slept, out, atsend, loggedat, acc, due>>

\* a variant of HandleLoginRequired that submits the request again at once
HandleLoginRequiredWithoutLogin ==
    /\ Dispatching("login-required")
    /\ stack' = Append([stack EXCEPT ![Depth].pc = "retried"],
                       PostFrame(Top.dref, "login-required", Data(Top.dref)))
    /\ UNCHANGED <<user, tokens, gen, ret, status, raised, sent, nreq, nerr,
                   nops, nquery, minted, nitem, slept, out, atsend, loggedat,
                   invalid, acc, due>>

\* _handle_login_required_error, line 198: self.login()
HandleLoginRequired ==
    /\ Dispatching("login-required")
    /\ stack' = Append([stack EXCEPT ![Depth].pc = "lr_login"],
                       LoginFrame(NoValue, NoValue, EmptyDict, NoValue))
    /\ UNCHANGED <<user, tokens, gen, ret, status, raised, sent, nreq, nerr,
                   nops, nquery, minted, nitem, slept, out, atsend, loggedat,
                   invalid, acc, due>>

\* line 199: return self.post(data)
LoginRequiredRetry ==
    /\ At("post", "lr_login")
    /\ stack' = Append([stack EXCEPT ![Depth].pc = "retried"],
                       PostFrame(Top.dref, "login-required", Data(Top.dref)))
    /\ UNCHANGED <<user, tokens, gen, ret, status, raised, sent, nreq, nerr,
                   nops, nquery, minted, nitem, slept, out, atsend, loggedat,
                   invalid, acc, due>>

\* a variant of HandleMaxlag that sleeps for the configured lag
HandleMaxlagForLag ==
    /\ Dispatching("maxlag")
    /\ slept' = Append(slept, StrInt(ForcedParams["maxlag"]))
    /\ stack' = Append([stack EXCEPT ![Depth].pc = "retried"],
                       PostFrame(Top.dref, "maxlag", Data(Top.dref)))
    /\ UNCHANGED <<user, tokens, gen, ret, status, raised, sent, nreq, nerr,
                   nops, nquery, minted, nitem, out, atsend, loggedat,
                   invalid, acc, due>>

\* _handle_maxlag_error, lines 204-207: sleep(int(retry_after)), then
\* return self.post(data)
HandleMaxlag ==
    /\ Dispatching("maxlag")
    /\ slept' = Append(slept, StrInt(Top.resp.headers["retry-after"]))
    /\ stack' = Append([stack EXCEPT ![Depth].pc = "retried"],
                       PostFrame(Top.dref, "maxlag", Data(Top.dref)))
    /\ UNCHANGED <<user, tokens, gen, ret, status, raised, sent, nreq, nerr,
                   nops, nquery, minted, nitem, out, atsend, loggedat,
                   invalid, acc, due>>

\* _handle_notloggedin_error, line 213: self.login()
HandleNotloggedin ==
    /\ Dispatching("notloggedin")
    /\ stack' = Append([stack EXCEPT ![Depth].pc = "nl_login"],
                       LoginFrame(NoValue, NoValue, EmptyDict, NoValue))
    /\ UNCHANGED <<user, tokens, gen, ret, status, raised, sent, nreq, nerr,
                   nops, nquery, minted, nitem, slept, out, atsend, loggedat,
                   invalid, acc, due>>

\* a variant of NotloggedinRetry that leaves the token parameter in the dict
NotloggedinRetryKeepingToken ==
    /\ At("post", "nl_login")
    /\ stack' = Append([stack EXCEPT ![Depth].pc = "retried"],
                       PostFrame(Top.dref, "notloggedin", Data(Top.dref)))
    /\ UNCHANGED <<user, tokens, gen, ret, status, raised, sent, nreq, nerr,
                   nops, nquery, minted, nitem, slept, out, atsend, loggedat,
                   invalid, acc, due>>

\* lines 214-215: the action's token parameter is popped, then self.post(data)
NotloggedinRetry ==
    /\ At("post", "nl_login")
    /\ LET d == Top.dref
           param == ACTION_PARAM_TOKEN(ActionOf(Data(d)))[1]
       IN  stack' = Append([stack EXCEPT ![d].data = DictPop(Data(d), param),
                                         ![Depth].pc = "retried"],
                           PostFrame(d, "notloggedin", Data(d)))
    /\ UNCHANGED <<user, tokens, gen, ret, status, raised, sent, nreq, nerr,
                   nops, nquery, minted, nitem, slept, out, atsend, loggedat,
                   invalid, acc, due>>

\* _handle_toomanyvalues_error, line 220
HandleToomanyvalues ==
    /\ Dispatching("toomanyvalues")
    /\ Raise("TooManyValuesError", ErrorAt)
    /\ UNCHANGED <<user, tokens, gen, ret, sent, nreq, nerr, nops, nquery,
                   minted, nitem, slept, out, atsend, loggedat, invalid, acc,
                   due>>

\* lines 180-184: the handler's result (the retried post's) is not None and
\* is what post returns
HandlerReturn ==
    /\ At("post", "retried")
    /\ Return(ret)
    /\ UNCHANGED <<user, tokens, gen, sent, nreq, nerr, nops, nquery, minted,
                   nitem, slept, out, atsend, loggedat, invalid, acc, due>>

\* ------------------------------------------------------------ login
LoginParams(params, lgname, lgpassword, lgtoken) ==
    DictUpdate(params, [action |-> V("login"), lgname |-> lgname,
                        lgpassword |-> lgpassword, lgtoken |-> lgtoken])

\* login, lines 242-247: the credentials, then self.tokens['login'] (fetched
\* on a miss), then self.post(params)
LoginStart ==
    /\ At("login", "start")
    /\ LET cred == IF Top.lgpassword = NoValue
                   THEN ConfigCredentials
                   ELSE <<Top.lgname, Top.lgpassword>>
           st == [stack EXCEPT ![Depth].lgname = cred[1],
                               ![Depth].lgpassword = cred[2]]
       IN  IF "login" \in DOMAIN tokens
           THEN stack' = Append(
                    [st EXCEPT ![Depth].pc = "posted",
                               ![Depth].data = LoginParams(
                                   Top.data, cred[1], cred[2], tokens["login"])],
                    PostFrame(Depth, "call", EmptyDict))
           ELSE stack' = Append([st EXCEPT ![Depth].pc = "tokret"],
                                TokensFrame("login"))
    /\ UNCHANGED <<user, tokens, gen, ret, status, raised, sent, nreq, nerr,
                   nops, nquery, minted, nitem, slept, out, atsend, loggedat,
                   invalid, acc, due>>

\* lines 244-247 after the token fetch returned
LoginTokenRet ==
    /\ At("login", "tokret")
    /\ stack' = Append(
           [stack EXCEPT ![Depth].pc = "posted",
                         ![Depth].data = LoginParams(
                             Top.data, Top.lgname, Top.lgpassword, ret)],
           PostFrame(Depth, "call", EmptyDict))
    /\ UNCHANGED <<user, tokens, gen, ret, status, raised, sent, nreq, nerr,
                   nops, nquery, minted, nitem, slept, out, atsend, loggedat,
                   invalid, acc, due>>

\* lines 248-249: json['login']['result'] of the response post returned
LoginResult == ret["login"]["result"]

\* a variant of LoginSuccess that leaves the token cache as it is
LoginSuccessKeepingTokens ==
    /\ At("login", "posted")
    /\ ret["login"]["result"] = "Success"
    /\ user' = ret["login"]["lgusername"]
    /\ loggedat' = [nreq |-> nreq, minted |-> minted, cleared |-> minted]
    /\ Return(ret["login"])
    /\ UNCHANGED <<tokens, gen, sent, nreq, nerr, nops, nquery, minted, nitem,
                   slept, out, atsend, invalid, acc, due>>

\* lines 250-254
LoginSuccess ==
    /\ At("login", "posted")
    /\ LoginResult = "Success"
    /\ tokens' = EmptyDict
    /\ invalid' = {}
    /\ user' = ret["login"]["lgusername"]
    /\ loggedat' = [nreq |-> nreq, minted |-> minted, cleared |-> minted]
    /\ Return(ret["login"])
    /\ UNCHANGED <<gen, sent, nreq, nerr, nops, nquery, minted, nitem, slept,
                   out, atsend, acc, due>>

\* a variant of LoginWrongToken that keeps the login token cached
LoginWrongTokenKeeping ==
    /\ At("login", "posted")
    /\ ret["login"]["result"] = "WrongToken"
    /\ stack' = Append(
           [stack EXCEPT ![Depth].pc = "retry"],
           LoginFrame(Top.data["lgname"], Top.data["lgpassword"],
                      DictPop(DictPop(Top.data, "lgname"), "lgpassword"),
                      Top.data["lgtoken"]))
    /\ UNCHANGED <<user, tokens, gen, ret, status, raised, sent, nreq, nerr,
                   nops, nquery, minted, nitem, slept, out, atsend, loggedat,
                   invalid, acc, due>>

\* lines 255-259: the login token is dropped and login called again with the
\* parameters of this call; lgtoken is overwritten there with a fresh one
LoginWrongToken ==
    /\ At("login", "posted")
    /\ LoginResult = "WrongToken"
    /\ IF "login" \in DOMAIN tokens
       THEN /\ tokens' = DictPop(tokens, "login")
            /\ invalid' = invalid \cup {"login"}
            /\ stack' = Append(
                   [stack EXCEPT ![Depth].pc = "retry"],
                   [LoginFrame(Top.data["lgname"], Top.data["lgpassword"],
                               DictPop(DictPop(Top.data, "lgname"), "lgpassword"),
                               Top.data["lgtoken"])
                       EXCEPT !.cached0 = FALSE])
            /\ UNCHANGED <<status, raised>>
       ELSE /\ Raise("KeyError", "login")
            /\ UNCHANGED <<tokens, invalid>>
    /\ UNCHANGED <<user, gen, ret, sent, nreq, nerr, nops, nquery, minted,
                   nitem, slept, out, atsend, loggedat, acc, due>>

\* line 259: the result of the repeated login is returned
LoginRetryReturn ==
    /\ At("login", "retry")
    /\ Return(ret)
    /\ UNCHANGED <<user, tokens, gen, sent, nreq, nerr, nops, nquery, minted,
                   nitem, slept, out, atsend, loggedat, invalid, acc, due>>

\* a variant of LoginFail that empties the token cache as a login does
LoginFailClearing ==
    /\ At("login", "posted")
    /\ ret["login"]["result"] \notin {"Success", "WrongToken"}
    /\ tokens' = EmptyDict
    /\ Raise("LoginError", ret)
    /\ UNCHANGED <<user, gen, ret, sent, nreq, nerr, nops, nquery, minted,
                   nitem, slept, out, atsend, loggedat, invalid, acc, due>>

\* line 260
LoginFail ==
    /\ At("login", "posted")
    /\ LoginResult \notin {"Success", "WrongToken"}
    /\ Raise("LoginError", ret)
    /\ UNCHANGED <<user, tokens, gen, ret, sent, nreq, nerr, nops, nquery,
                   minted, nitem, slept, out, atsend, loggedat, invalid, acc,
                   due>>

\* ------------------------------------------------------------ logout, patrol
\* logout, line 267
LogoutStart ==
    /\ At("logout", "start")
    /\ stack' = Append(
           [stack EXCEPT ![Depth].pc = "posted",
                         ![Depth].data = [action |-> V("logout")]],
           PostFrame(Depth, "call", EmptyDict))
    /\ UNCHANGED <<user, tokens, gen, ret, status, raised, sent, nreq, nerr,
                   nops, nquery, minted, nitem, slept, out, atsend, loggedat,
                   invalid, acc, due>>

\* a variant of LogoutDone that leaves the token cache as it is
LogoutDoneKeepingTokens ==
    /\ At("logout", "posted")
    /\ user' = None
    /\ loggedat' = [loggedat EXCEPT !.cleared = minted]
    /\ Return(None)
    /\ UNCHANGED <<tokens, gen, sent, nreq, nerr, nops, nquery, minted, nitem,
                   slept, out, atsend, invalid, acc, due>>

\* logout, lines 268-269
LogoutDone ==
    /\ At("logout", "posted")
    /\ tokens' = EmptyDict
    /\ invalid' = {}
    /\ user' = None
    /\ loggedat' = [loggedat EXCEPT !.cleared = minted]
    /\ Return(None)
    /\ UNCHANGED <<gen, sent, nreq, nerr, nops, nquery, minted, nitem, slept,
                   out, atsend, acc, due>>

\* patrol, lines 279-280
PatrolStart ==
    /\ At("patrol", "start")
    /\ stack' = Append(
           [stack EXCEPT ![Depth].pc = "posted",
                         ![Depth].data = DictUpdate(@, [action |-> V("patrol")])],
           PostFrame(Depth, "call", EmptyDict))
    /\ UNCHANGED <<user, tokens, gen, ret, status, raised, sent, nreq, nerr,
                   nops, nquery, minted, nitem, slept, out, atsend, loggedat,
                   invalid, acc, due>>

PatrolReturn ==
    /\ At("patrol", "posted")
    /\ Return(ret)
    /\ UNCHANGED <<user, tokens, gen, sent, nreq, nerr, nops, nquery, minted,
                   nitem, slept, out, atsend, loggedat, invalid, acc, due>>

\* the caller posts a dict of its own: post(data), line 294
CallerPost ==
    /\ At("caller", "start")
    /\ stack' = Append([stack EXCEPT ![Depth].pc = "posted"],
                       PostFrame(Depth, "call", EmptyDict))
    /\ UNCHANGED <<user, tokens, gen, ret, status, raised, sent, nreq, nerr,
                   nops, nquery, minted, nitem, slept, out, atsend, loggedat,
                   invalid, acc, due>>

CallerReturn ==
    /\ At("caller", "posted")
    /\ Return(ret)
    /\ UNCHANGED <<user, tokens, gen, sent, nreq, nerr, nops, nquery, minted,
                   nitem, slept, out, atsend, loggedat, invalid, acc, due>>

\* ------------------------------------------------------------ TokenManager
\* __missing__, lines 128-129: self.api.query_meta('tokens', type=token_type)
TokensMissing ==
    /\ At("tokens", "start")
    /\ stack' = Append([stack EXCEPT ![Depth].pc = "fetched"],
                       QueryMetaFrame("tokens", [type |-> V(Top.type)]))
    /\ UNCHANGED <<user, tokens, gen, ret, status, raised, sent, nreq, nerr,
                   nops, nquery, minted, nitem, slept, out, atsend, loggedat,
                   invalid, acc, due>>

\* a variant of TokensStore that returns the token and does not cache it
TokensStoreNothing ==
    /\ At("tokens", "fetched")
    /\ Return(ret[Top.type \o "token"])
    /\ UNCHANGED <<user, tokens, gen, sent, nreq, nerr, nops, nquery, minted,
                   nitem, slept, out, atsend, loggedat, invalid, acc, due>>

\* lines 128-130: [f'{token_type}token'] of the result is cached and returned
TokensStore ==
    /\ At("tokens", "fetched")
    /\ LET key == Top.type \o "token"
       IN  IF key \in DOMAIN ret
           THEN /\ tokens' = DictSet(tokens, Top.type, ret[key])
                /\ invalid' = invalid \ {Top.type}
                /\ Return(ret[key])
           ELSE /\ Raise("KeyError", key)
                /\ UNCHANGED <<tokens, ret, invalid>>
    /\ UNCHANGED <<user, gen, sent, nreq, nerr, nops, nquery, minted, nitem,
                   slept, out, atsend, loggedat, acc, due>>

\* ------------------------------------------------------------ generators
\* The frames of post_and_continue (nested by yield from) lie above the frame
\* that consumes them.  When the top generator is suspended at its yield
\* (pc "yielded") the consumer below runs; it resumes the generator by
\* setting that pc to "resume".
Consumer ==
    CHOOSE j \in 1 .. Depth :
        stack[j].fn # "pac" /\ \A k \in j + 1 .. Depth : stack[k].fn = "pac"

Suspended == stack # <<>> /\ Top.fn = "pac" /\ Top.pc = "yielded"

\* the consumer f is at p, with the body the generator yielded
Consuming(f, p) ==
    /\ Suspended
    /\ stack[Consumer].fn = f
    /\ stack[Consumer].pc = p

\* a generator frame ends: the frame below goes on, a post_and_continue with
\* its next chunk, a consumer with the end of its for loop
EndGenerator ==
    LET below == stack[Depth - 1]
    IN  stack' = [SubSeq(stack, 1, Depth - 1) EXCEPT
                     ![Depth - 1].pc = IF below.fn = "pac" THEN "chunk" ELSE "stop"]

\* ------------------------------------------------------------ post_and_continue
\* lines 321-323
PacRawcontinue ==
    /\ At("pac", "start")
    /\ "rawcontinue" \in DOMAIN Data(Top.dref)
    /\ Raise("NotImplementedError", None)
    /\ UNCHANGED <<user, tokens, gen, ret, sent, nreq, nerr, nops, nquery,
                   minted, nitem, slept, out, atsend, loggedat, invalid, acc,
                   due>>

\* a variant of PacStart that posts whatever the parameters hold
PacStartUnchecked ==
    /\ At("pac", "start")
    /\ stack' = Append([stack EXCEPT ![Depth].pc = "posting"],
                       PostFrame(Top.dref, "call", EmptyDict))
    /\ UNCHANGED <<user, tokens, gen, ret, status, raised, sent, nreq, nerr,
                   nops, nquery, minted, nitem, slept, out, atsend, loggedat,
                   invalid, acc, due>>

\* lines 324-327: prev_continue = None, then the first self.post(data)
PacStart ==
    /\ At("pac", "start")
    /\ "rawcontinue" \notin DOMAIN Data(Top.dref)
    /\ stack' = Append([stack EXCEPT ![Depth].pc = "posting"],
                       PostFrame(Top.dref, "call", EmptyDict))
    /\ UNCHANGED <<user, tokens, gen, ret, status, raised, sent, nreq, nerr,
                   nops, nquery, minted, nitem, slept, out, atsend, loggedat,
                   invalid, acc, due>>

\* line 342: yield json
PacYield ==
    /\ At("pac", "posting")
    /\ stack' = [stack EXCEPT ![Depth].pc = "yielded", ![Depth].json = ret,
                              ![Depth].nyield = @ + 1,
                              ![Consumer].pc = "body"]
    /\ UNCHANGED <<user, tokens, gen, ret, status, raised, sent, nreq, nerr,
                   nops, nquery, minted, nitem, slept, out, atsend, loggedat,
                   invalid, acc, due>>

\* a variant of PacEnd that posts the parameters once more before it ends
PacEndAfterPost ==
    /\ At("pac", "resume")
    /\ "continue" \notin DOMAIN Top.json
    /\ IF Top.has_prev
       THEN stack' = Append([stack EXCEPT ![Depth].has_prev = FALSE,
                                          ![Depth].pc = "posting"],
                            PostFrame(Top.dref, "call", EmptyDict))
       ELSE EndGenerator
    /\ UNCHANGED <<user, tokens, gen, ret, status, raised, sent, nreq, nerr,
                   nops, nquery, minted, nitem, slept, out, atsend, loggedat,
                   invalid, acc, due>>

\* lines 343-344: no continuation object, the generator returns
PacEnd ==
    /\ At("pac", "resume")
    /\ "continue" \notin DOMAIN Top.json
    /\ EndGenerator
    /\ UNCHANGED <<user, tokens, gen, ret, status, raised, sent, nreq, nerr,
                   nops, nquery, minted, nitem, slept, out, atsend, loggedat,
                   invalid, acc, due>>

\* a variant of MergeContinue that deletes no key of the previous object
MergeContinueKeepingKeys(data, has_prev, prev_continue, continue_) ==
    DictUpdate(data, continue_)

\* lines 345-351: the parameters after the continuation object continue_ is
\* merged: the first one is merged as it is; later, the keys of the previous
\* one that it lacks are deleted first
MergeContinue(data, has_prev, prev_continue, continue_) ==
    IF ~has_prev
    THEN DictUpdate(data, continue_)
    ELSE DictUpdate(
             [k \in DOMAIN data \ (DOMAIN prev_continue \ DOMAIN continue_)
                 |-> data[k]],
             continue_)

\* line 350: del data[k] raises KeyError for a key data does not hold
MergeKeyError(data, has_prev, prev_continue, continue_) ==
    has_prev /\ (DOMAIN prev_continue \ DOMAIN continue_) \ DOMAIN data # {}

\* lines 343-351 and 327: the merge, then the next self.post(data)
PacContinue ==
    /\ At("pac", "resume")
    /\ "continue" \in DOMAIN Top.json
    /\ LET d == Top.dref
           continue_ == Top.json["continue"]
       IN  IF MergeKeyError(Data(d), Top.has_prev, Top.prev_continue, continue_)
           THEN Raise("KeyError", None)
           ELSE /\ stack' = Append(
                       [stack EXCEPT
                           ![d].data = MergeContinue(
                               Data(d), Top.has_prev, Top.prev_continue, continue_),
                           ![Depth].was_prev = Top.prev_continue,
                           ![Depth].prev_continue = continue_,
                           ![Depth].has_prev = TRUE,
                           ![Depth].pc = "posting"],
                       PostFrame(d, "call", EmptyDict))
                /\ UNCHANGED <<status, raised>>
    /\ UNCHANGED <<user, tokens, gen, ret, sent, nreq, nerr, nops, nquery,
                   minted, nitem, slept, out, atsend, loggedat, invalid, acc,
                   due>>

\* lines 329-330: the name between the first two quotes of the error's text
ErrorParam(text) ==
    LET start == StrFind(text, "\"", 0) + 1
    IN  StrSlice(text, start, StrFind(text, "\"", start))

\* a variant of ChunkAt whose chunks hold one value more than the limit
ChunkAtPastLimit(param_values, i, limit) ==
    StrJoin(StrSlice(param_values, i, i + limit + 1), "|")

\* lines 338-339: the values of the chunk that starts at offset i
ChunkAt(param_values, i, limit) ==
    StrJoin(StrSlice(param_values, i, i + limit), "|")

\* lines 328-337: TooManyValuesError is caught, the parameter split
PacCaught ==
    /\ At("pac", "caught")
    /\ LET d == Top.dref
           name == ErrorParam(Top.error.text)
           param == IF Len(name) = 1 THEN name[1] ELSE None
       IN  IF param \in DOMAIN Data(d)
           THEN /\ stack' = [stack EXCEPT
                       ![Depth].param = param,
                       ![Depth].orig = Data(d)[param],
                       ![Depth].param_values = StrSplit(Data(d)[param], "|"),
                       ![Depth].limit = Top.error.data.limit,
                       ![Depth].i = 0,
                       ![Depth].pc = "chunk"]
                /\ UNCHANGED <<status, raised>>
           ELSE Raise("KeyError", param)
    /\ UNCHANGED <<user, tokens, gen, ret, sent, nreq, nerr, nops, nquery,
                   minted, nitem, slept, out, atsend, loggedat, invalid, acc,
                   due>>

\* lines 338-340: the next chunk replaces the parameter and a nested
\* post_and_continue(data) is delegated to
PacChunk ==
    /\ At("pac", "chunk")
    /\ Top.i < Len(Top.param_values)
    /\ LET d == Top.dref
       IN  stack' = Append(
               [stack EXCEPT
                   ![d].data = DictSet(Data(d), Top.param,
                                       ChunkAt(Top.param_values, Top.i, Top.limit)),
                   ![Depth].i = @ + Top.limit,
                   ![Depth].pc = "sub"],
               PacFrame(d))
    /\ UNCHANGED <<user, tokens, gen, ret, status, raised, sent, nreq, nerr,
                   nops, nquery, minted, nitem, slept, out, atsend, loggedat,
                   invalid, acc, due>>

\* line 341: after the last chunk the generator returns
PacChunksDone ==
    /\ At("pac", "chunk")
    /\ Top.i >= Len(Top.param_values)
    /\ EndGenerator
    /\ UNCHANGED <<user, tokens, gen, ret, status, raised, sent, nreq, nerr,
                   nops, nquery, minted, nitem, slept, out, atsend, loggedat,
                   invalid, acc, due>>

\* ------------------------------------------------------------ query facade
\* query, lines 364-365: params['action'] = 'query', then post_and_continue
Query(params) == DictSet(params, "action", V("query"))

\* query_meta, lines 389-394, up to the first round of self.query(params)
QueryMetaStart ==
    /\ At("query_meta", "start")
    /\ stack' = Append(
           [stack EXCEPT
               ![Depth].data = Query(DictSet(Top.data, "meta", V(Top.meta))),
               ![Depth].pc = "wait"],
           PacFrame(Depth))
    /\ UNCHANGED <<user, tokens, gen, ret, status, raised, sent, nreq, nerr,
                   nops, nquery, minted, nitem, slept, out, atsend, loggedat,
                   invalid, acc, due>>

\* a variant of MetaResult that treats every meta name but filerepoinfo as
\* siteinfo
MetaResultAsSiteinfo(meta, json) ==
    IF meta = "filerepoinfo" THEN json["query"]["repos"] ELSE json["query"]

\* lines 390-398: what query_meta returns for the first body
MetaResult(meta, json) ==
    IF meta = "siteinfo" THEN json["query"]
    ELSE json["query"][IF meta = "filerepoinfo" THEN "repos" ELSE meta]

\* lines 391-398: the first body ends the call; the generator is dropped
QueryMetaBody ==
    /\ Consuming("query_meta", "body")
    /\ LET c == Consumer
           json == Top.json
       IN  IF "continue" \in DOMAIN json
           THEN /\ Raise("AssertionError", None)
                /\ UNCHANGED ret
           ELSE /\ stack' = SubSeq(stack, 1, c - 1)
                /\ ret' = MetaResult(stack[c].meta, json)
                /\ status' = IF c = 1 THEN "ok" ELSE status
                /\ UNCHANGED raised
    /\ UNCHANGED <<user, tokens, gen, sent, nreq, nerr, nops, nquery, minted,
                   nitem, slept, out, atsend, loggedat, invalid, acc, due>>

\* query_list, lines 374-375
QueryListStart ==
    /\ At("query_list", "start")
    /\ stack' = Append(
           [stack EXCEPT
               ![Depth].data = Query(DictSet(Top.data, "list", V(Top.list))),
               ![Depth].pc = "wait"],
           PacFrame(Depth))
    /\ UNCHANGED <<user, tokens, gen, ret, status, raised, sent, nreq, nerr,
                   nops, nquery, minted, nitem, slept, out, atsend, loggedat,
                   invalid, acc, due>>

\* a variant of RoundItems that loses the first item of a round
RoundItemsAfterFirst(json, list) ==
    IF json["query"][list] = <<>> THEN <<>> ELSE Tail(json["query"][list])

\* line 377: json['query'][list], the items the for loop yields
RoundItems(json, list) == json["query"][list]

\* lines 376-377: json['batchcomplete'] is asserted, the items are taken
QueryListBody ==
    /\ Consuming("query_list", "body")
    /\ LET c == Consumer
           json == Top.json
       IN  IF "batchcomplete" \notin DOMAIN json
           THEN Raise("KeyError", "batchcomplete")
           ELSE IF json["batchcomplete"] # TRUE
           THEN Raise("AssertionError", None)
           ELSE /\ stack' = [stack EXCEPT
                       ![c].items = RoundItems(json, stack[c].list),
                       ![c].pc = "items"]
                /\ UNCHANGED <<status, raised>>
    /\ UNCHANGED <<user, tokens, gen, ret, sent, nreq, nerr, nops, nquery,
                   minted, nitem, slept, out, atsend, loggedat, invalid, acc,
                   due>>

\* a generator the caller iterates yields a value: it is suspended
YieldToCaller(f) ==
    /\ Consuming(f, "items")
    /\ stack[Consumer].items # <<>>
    /\ gen' = [stack EXCEPT ![Consumer].items = Tail(@)]
    /\ stack' = <<>>
    /\ ret' = Head(stack[Consumer].items)
    /\ out' = Append(out, Head(stack[Consumer].items))
    /\ status' = "yield"
    /\ UNCHANGED raised
    /\ UNCHANGED <<user, tokens, sent, nreq, nerr, nops, nquery, minted,
                   nitem, slept, atsend, loggedat, invalid, acc, due>>

\* the for loop over the generator asks for the next body
NextBody(f) ==
    /\ Consuming(f, "items")
    /\ stack[Consumer].items = <<>>
    /\ stack' = [stack EXCEPT ![Consumer].pc = "wait", ![Depth].pc = "resume"]
    /\ UNCHANGED <<user, tokens, gen, ret, status, raised, sent, nreq, nerr,
                   nops, nquery, minted, nitem, slept, out, atsend, loggedat,
                   invalid, acc, due>>

\* the for loop ended: the generator returns, the caller's iteration stops
StopIteration(f) ==
    /\ At(f, "stop")
    /\ stack' = <<>>
    /\ status' = "stop"
    /\ UNCHANGED raised
    /\ UNCHANGED <<user, tokens, gen, ret, sent, nreq, nerr, nops, nquery,
                   minted, nitem, slept, out, atsend, loggedat, invalid, acc,
                   due>>

\* line 378: yield item
QueryListYield == YieldToCaller("query_list")

\* line 375: the next json of self.query(params)
QueryListNext == NextBody("query_list")

\* query_list returns after the last round
QueryListStop == StopIteration("query_list")

\* query_prop, lines 407-409
QueryPropStart ==
    /\ At("query_prop", "start")
    /\ stack' = Append(
           [stack EXCEPT
               ![Depth].data = Query(DictSet(Top.data, "prop", V(Top.prop))),
               ![Depth].pc = "wait"],
           PacFrame(Depth))
    /\ UNCHANGED <<user, tokens, gen, ret, status, raised, sent, nreq, nerr,
                   nops, nquery, minted, nitem, slept, out, atsend, loggedat,
                   invalid, acc, due>>

\* lines 419-421 and 433-435: batch_page after page is merged into it;
\* setdefault sets the property when batch_page lacks it, else page's values
\* are appended
MergePage(page, batch_page, prop) ==
    IF prop \notin DOMAIN page THEN batch_page
    ELSE IF prop \notin DOMAIN batch_page
    THEN DictSet(batch_page, prop, page[prop])
    ELSE DictSet(batch_page, prop, batch_page[prop] \o page[prop])

\* lines 418-426: what the completing round yields for page and batch_page
YieldedPage(page, batch_page, prop) ==
    IF prop \in DOMAIN page /\ prop \notin DOMAIN batch_page THEN page
    ELSE MergePage(page, batch_page, prop)

\* zip(pages, batch): the pairs at the same position, to the shorter length
ZipLen(pages, batch) == Min(Len(pages), Len(batch))

\* lines 432-435: the batch after a round without batchcomplete is merged
MergeBatch(pages, batch, prop) ==
    [j \in 1 .. Len(batch) |->
        IF j <= Len(pages) THEN MergePage(pages[j], batch[j], prop)
        ELSE batch[j]]

\* lines 414-426: the pages a round with batchcomplete yields
CompleteBatch(pages, has_batch, batch, prop) ==
    IF ~has_batch THEN pages
    ELSE [j \in 1 .. ZipLen(pages, batch) |->
             YieldedPage(pages[j], batch[j], prop)]

\* lines 410-435: one round of the for loop
QueryPropBody ==
    /\ Consuming("query_prop", "body")
    /\ LET c == Consumer
           f == stack[c]
           json == Top.json
       IN  IF "query" \notin DOMAIN json
           THEN stack' = [stack EXCEPT ![c].pc = "items"]
           ELSE LET pages == json["query"]["pages"]
                IN  IF "batchcomplete" \in DOMAIN json
                    THEN stack' = [stack EXCEPT
                             ![c].items = CompleteBatch(
                                 pages, f.has_batch, f.batch, f.prop),
                             ![c].has_batch = FALSE,
                             ![c].batch = <<>>,
                             ![c].pc = "items"]
                    ELSE stack' = [stack EXCEPT
                             ![c].batch = IF f.has_batch
                                          THEN MergeBatch(pages, f.batch, f.prop)
                                          ELSE pages,
                             ![c].has_batch = TRUE,
                             ![c].pc = "items"]
    /\ UNCHANGED <<user, tokens, gen, ret, status, raised, sent, nreq, nerr,
                   nops, nquery, minted, nitem, slept, out, atsend, loggedat,
                   invalid, acc, due>>

\* lines 416, 422-426: yield page
QueryPropYield == YieldToCaller("query_prop")

\* line 409: the next json of self.query(params)
QueryPropNext == NextBody("query_prop")

\* query_prop returns after the last round
QueryPropStop == StopIteration("query_prop")

\* ------------------------------------------------------------ the server
\* The transport's other end answers the request in sent.  A response is the
\* headers and the decoded body; err, mint and items say what it uses up.
Response(headers, json, err, mint, items) ==
    [headers |-> headers, json |-> json, err |-> err, mint |-> mint,
     items |-> items]

TitleSyms == <<"a", "b", "c", "d", "e", "f", "g">>

\* continuation objects the server may put in round n
ContinueObjects(n) ==
    {[continue |-> V("-||"), rccontinue |-> V("c" \o ToString(n))],
     [continue |-> V("k" \o ToString(n))],
     [rccontinue |-> V("c" \o ToString(n)), format |-> V("xml")]}

\* a body with or without a continuation object
WithContinue(json, n) ==
    {json} \cup {json @@ ("continue" :> c) : c \in ContinueObjects(n)}

\* the items n+1 .. n+k
Fresh(n, k) == [j \in 1 .. k |-> n + j]

ListBodies(list, n) ==
    UNION {WithContinue([batchcomplete |-> TRUE,
                         query |-> (list :> Fresh(nitem, k))], n)
               : k \in 0 .. MaxItems}

\* the page lists of a prop round: the pages in either order or the first
\* alone, each with 0 .. MaxItems fresh values of the property (none: the
\* page has no such key in this round)
PageOrders == {<<1, 2>>, <<2, 1>>, <<1>>}

RECURSIVE SumTo(_, _)
SumTo(f, j) == IF j = 0 THEN 0 ELSE f[j] + SumTo(f, j - 1)

Pages(order, counts, prop) ==
    [j \in 1 .. Len(order) |->
        IF counts[j] = 0 THEN [pageid |-> order[j]]
        ELSE ("pageid" :> order[j])
             @@ (prop :> [x \in 1 .. counts[j]
                             |-> nitem + SumTo(counts, j - 1) + x])]

PropBodies(prop, n) ==
    UNION {UNION {
        LET json == [query |-> [pages |-> Pages(order, counts, prop)]]
            more == json @@ ("continue" :> [continue |-> V("k" \o ToString(n))])
        IN  {Response(EmptyDict, j, 0, 0, SumTo(counts, Len(order)))
                : j \in {json @@ [batchcomplete |-> TRUE]}
                        \cup IF n < MaxRounds
                             THEN {more, more @@ [batchcomplete |-> TRUE]}
                             ELSE {}}
        : counts \in [1 .. Len(order) -> 0 .. MaxItems]}
        : order \in PageOrders}

\* the query object of a meta query other than tokens: the server names the
\* result of filerepoinfo repos and that of siteinfo after the siprop asked
MetaQuery(meta) ==
    CASE meta = "siteinfo" -> [protocols |-> <<"http", "https">>]
      [] meta = "filerepoinfo" -> [repos |-> <<"Commons", "Wikipedia">>]
      [] OTHER -> (meta :> [id |-> 0, name |-> "1.1.1.1"])

\* the bodies of a meta query, with or without a continuation object
MetaBodies(meta) ==
    LET json == [batchcomplete |-> TRUE, query |-> MetaQuery(meta)]
    IN  {json, json @@ ("continue" :> [continue |-> V("-||")])}

\* the responses without errors to the request req
GoodResponses(req) ==
    LET action == ActionOf(req)
    IN  IF action = "login"
        THEN {Response(EmptyDict,
                       [login |-> [result |-> "Success",
                                   lgusername |-> req["lgname"][1]]],
                       0, 0, 0)}
        ELSE IF action = "logout"
        THEN {Response(EmptyDict, EmptyDict, 0, 0, 0)}
        ELSE IF action = "query" /\ "meta" \in DOMAIN req
                /\ req["meta"] # V("tokens")
        THEN {Response(EmptyDict, j, 0, 0, 0) : j \in MetaBodies(req["meta"][1])}
        ELSE IF action = "query" /\ "meta" \in DOMAIN req
        THEN {Response(
                  EmptyDict,
                  [batchcomplete |-> TRUE,
                   query |-> [tokens |->
                       ((req["type"][1] \o "token")
                            :> V("T" \o ToString(minted + 1)))]],
                  0, 1, 0)}
        ELSE IF action = "query" /\ "list" \in DOMAIN req
        THEN {Response(EmptyDict, j, 0, 0, Len(j["query"][req["list"][1]]))
                 : j \in ListBodies(req["list"][1], nreq)}
        ELSE IF action = "query" /\ "prop" \in DOMAIN req
        THEN PropBodies(req["prop"][1], nreq)
        ELSE {Response(EmptyDict, (action :> [ok |-> TRUE]), 0, 0, 0)}

\* the login results that are not Success
BadLogins(req) ==
    IF ActionOf(req) # "login" THEN {}
    ELSE {Response(EmptyDict, [login |-> [result |-> r]], 1, 0, 0)
             : r \in {"WrongToken", "Failed"}}

\* a list round that does not declare batchcomplete
IncompleteLists(req) ==
    IF ActionOf(req) = "query" /\ "list" \in DOMAIN req
    THEN {Response(EmptyDict, [query |-> (req["list"][1] :> Fresh(nitem, 1))],
                   1, 0, 1)}
    ELSE {}

Error(code, module) ==
    [code |-> code, module |-> module, text |-> V(code), data |-> [limit |-> 0]]

\* toomanyvalues names, between quotes, a parameter of the request that holds
\* more values than the limit
TooManyValues(req) ==
    UNION {{[code |-> "toomanyvalues", module |-> "main",
             text |-> <<"Too many values supplied for parameter ", "\"", p,
                        "\"", ". The limit is ", ToString(limit), ".">>,
             data |-> [limit |-> limit]]
               : limit \in {l \in 1 .. 2 : l < Len(StrSplit(req[p], "|"))}}
              : p \in DOMAIN req}

RetryAfter == {V("5"), <<"1", "0">>}

HasCode(l, code) == \E j \in 1 .. Len(l) : l[j].code = code

\* the responses that carry the error lists ls, a maxlag error with one of
\* the retry-after headers delays
ErrorResponses(ls, delays) ==
    UNION {IF HasCode(l, "maxlag")
           THEN {Response("retry-after" :> h, [errors |-> l], 1, 0, 0)
                    : h \in delays}
           ELSE {Response(EmptyDict, [errors |-> l], 1, 0, 0)}
              : l \in ls}

\* the request req carries a token
HasToken(req) == {"token", "lgtoken"} \cap DOMAIN req # {}

\* the error lists of a session of actions: one error of each code, and lists
\* of two where the first handler gives no result or the second is not
\* reached; badtoken is the answer of the request's module to the token the
\* request carries
SessionErrors(req) ==
    LET module == ActionOf(req)
        lag == Error("maxlag", "main")
    IN  {<<Error(c, module)>>
            : c \in {"login-required", "notloggedin", "permissiondenied"}}
        \cup {<<lag>>,
              <<Error("permissiondenied", module), lag>>,
              <<Error("permissiondenied", module), Error("readonly", "main")>>}
        \cup IF HasToken(req)
             THEN {<<Error("badtoken", module)>>,
                   <<Error("badtoken", module), lag>>,
                   <<lag, Error("badtoken", module)>>}
             ELSE {}

\* the error lists of a list query
ListErrors(req) ==
    {<<e>> : e \in {Error("maxlag", "main"), Error("login-required", "main")}
                   \cup TooManyValues(req)}

\* the values of the property a page object carries
PageValues(page, prop) == IF prop \in DOMAIN page THEN page[prop] ELSE <<>>

\* the page object of the page id pid in a round's page list
PageOf(pages, pid) ==
    pages[CHOOSE j \in 1 .. Len(pages) : pages[j]["pageid"] = pid]

PageIds(pages) == {pages[j]["pageid"] : j \in 1 .. Len(pages)}

\* the values served per page id in the open batch, after a round's pages
Served(pages, prop) ==
    [pid \in DOMAIN acc \cup PageIds(pages) |->
        (IF pid \in DOMAIN acc THEN acc[pid] ELSE <<>>)
        \o (IF pid \in PageIds(pages)
            THEN PageValues(PageOf(pages, pid), prop) ELSE <<>>)]

\* the pages a round with batchcomplete completes, in the order the server
\* lists them: every page of a round that opens and closes a batch, else the
\* pages that the open batch holds already; each with all its values
Completed(pages, prop) ==
    LET all == Served(pages, prop)
        RECURSIVE From(_)
        From(j) ==
            IF j > Len(pages) THEN <<>>
            ELSE LET pid == pages[j]["pageid"]
                 IN  (IF acc = EmptyDict \/ pid \in DOMAIN acc
                      THEN <<[pageid |-> pid, values |-> all[pid]]>>
                      ELSE <<>>) \o From(j + 1)
    IN  From(1)

\* lines 310-311: the transport returns one of the responses rs
Serve(rs) ==
    /\ At("post", "await")
    /\ \E r \in rs :
        /\ stack' = [stack EXCEPT
               ![Depth].resp = [headers |-> r.headers, json |-> r.json],
               ![Depth].i = 1,
               ![Depth].nerrs = nerr + r.err,
               ![Depth].pc = "got"]
        /\ nerr' = nerr + r.err
        /\ minted' = minted + r.mint
        /\ nitem' = nitem + r.items
        /\ IF "query" \in DOMAIN r.json /\ "pages" \in DOMAIN r.json["query"]
           THEN LET pages == r.json["query"]["pages"]
                    prop == sent["prop"][1]
                IN  IF "batchcomplete" \in DOMAIN r.json
                    THEN /\ due' = due \o Completed(pages, prop)
                         /\ acc' = EmptyDict
                    ELSE /\ acc' = Served(pages, prop)
                         /\ due' = due
           ELSE UNCHANGED <<acc, due>>
    /\ UNCHANGED <<user, tokens, gen, ret, status, raised, sent, nreq, nops,
                   nquery, slept, out, atsend, loggedat, invalid>>

\* the server of a session of actions
ServeSession ==
    Serve(GoodResponses(sent)
          \cup IF nerr < MaxErr
               THEN BadLogins(sent) \cup ErrorResponses(SessionErrors(sent), RetryAfter)
               ELSE {})

\* the server of a list query
ServeList ==
    Serve(GoodResponses(sent)
          \cup IF nerr < MaxErr
               THEN IncompleteLists(sent) \cup ErrorResponses(ListErrors(sent), {V("5")})
               ELSE {})

\* the server of a prop query: no errors
ServeProp == Serve(GoodResponses(sent))

\* ------------------------------------------------------------ the caller
Idle == stack = <<>> /\ nops < MaxOps

\* the pipe-joined titles the caller queries
Titles(n) == StrJoin([j \in 1 .. n |-> V(TitleSyms[j])], "|")

\* api.login() with the configured credentials, or api.login(lgname, lgpassword)
\* with those of another user
CallLogin ==
    /\ Idle
    /\ \E cred \in {<<NoValue, NoValue>>, OtherCredentials} :
        stack' = <<LoginFrame(cred[1], cred[2], EmptyDict, NoValue)>>
    /\ nops' = nops + 1
    /\ status' = "running"
    /\ UNCHANGED raised
    /\ UNCHANGED <<nquery, user, tokens, gen, ret, sent, nreq, nerr, minted,
                   nitem, slept, out, atsend, loggedat, invalid, acc, due>>

\* api.logout()
CallLogout ==
    /\ Idle
    /\ stack' = <<LogoutFrame>>
    /\ nops' = nops + 1
    /\ status' = "running"
    /\ UNCHANGED raised
    /\ UNCHANGED <<nquery, user, tokens, gen, ret, sent, nreq, nerr, minted,
                   nitem, slept, out, atsend, loggedat, invalid, acc, due>>

\* api.patrol(revid=1), with or without a token of the caller's own
CallPatrol ==
    /\ Idle
    /\ \E params \in {[revid |-> V("1")],
                      [revid |-> V("1"), token |-> V("mine")]} :
        stack' = <<PatrolFrame(params)>>
    /\ nops' = nops + 1
    /\ status' = "running"
    /\ UNCHANGED raised
    /\ UNCHANGED <<nquery, user, tokens, gen, ret, sent, nreq, nerr, minted,
                   nitem, slept, out, atsend, loggedat, invalid, acc, due>>

\* api.post({'action': 'edit', ...}), or api.post of an action that takes a
\* token and that the Action-to-Token Table does not list, with the token
CallPost ==
    /\ Idle
    /\ \E data \in {[action |-> V("edit"), title |-> V("a")],
                    [action |-> V("options"), token |-> V("mine")]} :
        stack' = <<CallerFrame(data)>>
    /\ nops' = nops + 1
    /\ status' = "running"
    /\ UNCHANGED raised
    /\ UNCHANGED <<nquery, user, tokens, gen, ret, sent, nreq, nerr, minted,
                   nitem, slept, out, atsend, loggedat, invalid, acc, due>>

\* api.query_meta(meta) for a meta name, siteinfo with siprop=protocols
CallQueryMeta ==
    /\ Idle
    /\ \E meta \in {"siteinfo", "filerepoinfo", "userinfo"} :
        stack' = <<QueryMetaFrame(
                      meta,
                      IF meta = "siteinfo" THEN [siprop |-> V("protocols")]
                      ELSE EmptyDict)>>
    /\ nops' = nops + 1
    /\ status' = "running"
    /\ UNCHANGED raised
    /\ UNCHANGED <<nquery, user, tokens, gen, ret, sent, nreq, nerr, minted,
                   nitem, slept, out, atsend, loggedat, invalid, acc, due>>

\* api.tokens[token_type]: dict lookup, __missing__ on a miss
CallTokens ==
    /\ Idle
    /\ \E token_type \in {"csrf", "patrol"} :
        IF token_type \in DOMAIN tokens
        THEN /\ ret' = tokens[token_type]
             /\ status' = "ok"
             /\ UNCHANGED raised
             /\ UNCHANGED stack
        ELSE /\ stack' = <<TokensFrame(token_type)>>
             /\ status' = "running"
             /\ UNCHANGED raised
             /\ UNCHANGED ret
    /\ nops' = nops + 1
    /\ UNCHANGED <<nquery, user, tokens, gen, sent, nreq, nerr, minted, nitem,
                   slept, out, atsend, loggedat, invalid, acc, due>>

\* iter(api.query_list('recentchanges', titles=..., format='xml'))
CallQueryList ==
    /\ Idle
    /\ nquery < MaxQueries
    /\ \E params \in {[titles |-> Titles(MaxTitles), format |-> V("xml")],
                      [rawcontinue |-> V("")]} :
        stack' = <<QueryListFrame("recentchanges", params)>>
    /\ gen' = <<>>
    /\ out' = <<>>
    /\ nitem' = 0
    /\ nops' = nops + 1
    /\ nquery' = nquery + 1
    /\ status' = "running"
    /\ UNCHANGED raised
    /\ acc' = EmptyDict
    /\ due' = <<>>
    /\ UNCHANGED <<user, tokens, ret, sent, nreq, nerr, minted, slept, atsend,
                   loggedat, invalid>>

\* iter(api.query_prop('revisions', titles=...))
CallQueryProp ==
    /\ Idle
    /\ nquery < MaxQueries
    /\ stack' = <<QueryPropFrame("revisions", [titles |-> Titles(MaxTitles)])>>
    /\ gen' = <<>>
    /\ out' = <<>>
    /\ nitem' = 0
    /\ nops' = nops + 1
    /\ nquery' = nquery + 1
    /\ status' = "running"
    /\ UNCHANGED raised
    /\ acc' = EmptyDict
    /\ due' = <<>>
    /\ UNCHANGED <<user, tokens, ret, sent, nreq, nerr, minted, slept, atsend,
                   loggedat, invalid>>

\* next() on the suspended generator
CallNext ==
    /\ stack = <<>>
    /\ gen # <<>>
    /\ stack' = gen
    /\ gen' = <<>>
    /\ status' = "running"
    /\ UNCHANGED raised
    /\ UNCHANGED <<user, tokens, ret, sent, nreq, nerr, nops, nquery, minted,
                   nitem, slept, out, atsend, loggedat, invalid, acc, due>>

\* ------------------------------------------------------------ specification
Init ==
    /\ user = None
    /\ tokens = EmptyDict
    /\ stack = <<>>
    /\ gen = <<>>
    /\ ret = None
    /\ status = "idle"
    /\ raised = None
    /\ sent = EmptyDict
    /\ nreq = 0
    /\ nerr = 0
    /\ nops = 0
    /\ nquery = 0
    /\ minted = 0
    /\ nitem = 0
    /\ slept = <<>>
    /\ out = <<>>
    /\ atsend = [user |-> None, tokens |-> EmptyDict]
    /\ loggedat = [nreq |-> 0, minted |-> 0, cleared |-> 0]
    /\ invalid = {}
    /\ acc = EmptyDict
    /\ due = <<>>

\* the steps of post that every specification takes
PostSteps == PostStart \/ PostToken \/ PostReturn

\* a session of actions: login, logout, patrol, post and token lookups
NextSession ==
    \/ CallLogin \/ CallLogout \/ CallPatrol \/ CallPost \/ CallTokens
    \/ CallQueryMeta
    \/ PostSteps \/ PostSendSession \/ PostTokenRet \/ ServeSession
    \/ HandleNone \/ RaiseAPIError \/ HandleBadtoken
    \/ HandleLoginRequired \/ LoginRequiredRetry \/ HandleMaxlag
    \/ HandleNotloggedin \/ NotloggedinRetry \/ HandlerReturn
    \/ LoginStart \/ LoginTokenRet \/ LoginSuccess \/ LoginWrongToken
    \/ LoginRetryReturn \/ LoginFail
    \/ LogoutStart \/ LogoutDone \/ PatrolStart \/ PatrolReturn
    \/ CallerPost \/ CallerReturn
    \/ TokensMissing \/ TokensStore
    \/ PacStart \/ PacYield \/ QueryMetaStart \/ QueryMetaBody

Spec == Init /\ [][NextSession]_vars

\* a list query the caller iterates
NextList ==
    \/ CallQueryList \/ CallNext
    \/ PostSteps \/ PostSend \/ ServeList
    \/ HandleMaxlag \/ HandleToomanyvalues
    \/ HandleLoginRequired \/ LoginRequiredRetry \/ HandlerReturn
    \/ LoginStart \/ LoginTokenRet \/ LoginSuccess
    \/ TokensMissing \/ TokensStore \/ QueryMetaStart \/ QueryMetaBody
    \/ PacRawcontinue \/ PacStart \/ PacYield \/ PacEnd \/ PacContinue
    \/ PacCaught \/ PacChunk \/ PacChunksDone
    \/ QueryListStart \/ QueryListBody \/ QueryListYield \/ QueryListNext
    \/ QueryListStop

SpecList == Init /\ [][NextList]_vars

\* a prop query the caller iterates
NextProp ==
    \/ CallQueryProp \/ CallNext
    \/ PostSteps \/ PostSend \/ ServeProp
    \/ PacStart \/ PacYield \/ PacEnd \/ PacContinue
    \/ QueryPropStart \/ QueryPropBody \/ QueryPropYield \/ QueryPropNext
    \/ QueryPropStop

SpecProp == Init /\ [][NextProp]_vars

\* ------------------------------------------------------------ properties
\* the frames of post_and_continue on the stack
PacFrames == {j \in 1 .. Depth : stack[j].fn = "pac"}

\* a request of the call of post whose dict the frame j owns or shares is
\* with the server
OnWire(j) ==
    /\ At("post", "await")
    /\ Top.dref = (IF stack[j].fn = "pac" THEN stack[j].dref ELSE j)

\* C1: what query_list yields is, item by item, what the server put in the
\* bodies of the rounds, in the order of the rounds and of the items in each
\* round; when the query ends normally every item of every round was
\* yielded (under SpecList the server numbers its items 1, 2, ... as it
\* puts them in the bodies, nitem being the last)
C1_ListConcatenation ==
    /\ Len(out) <= nitem
    /\ \A j \in 1 .. Len(out) : out[j] = j
    /\ (status = "stop" => out = Fresh(0, nitem))

\* a list query of three rounds ended, with an item of each round
C1_Witness == status = "stop" /\ Len(out) >= 3 /\ nreq >= 3 /\ nerr = 0

\* C2: a continuation object after the first one has just been merged and
\* the next request is about to be posted: the parameters hold no key that
\* the previous continuation object had and the new one lacks, and every
\* key of the new one with its value
C2_ContinueReplaced ==
    \A j \in PacFrames :
        (/\ j + 1 = Depth
         /\ stack[j].pc = "posting"
         /\ At("post", "start")
         /\ DOMAIN stack[j].was_prev # {})
        => LET data == Data(stack[j].dref)
               new == stack[j].prev_continue
               old == stack[j].was_prev
           IN  /\ (DOMAIN old \ DOMAIN new) \cap DOMAIN data = {}
               /\ \A k \in DOMAIN new : k \in DOMAIN data /\ data[k] = new[k]

\* the new continuation object lacks a key of the previous one
C2_Witness ==
    \E j \in PacFrames :
        /\ j + 1 = Depth
        /\ stack[j].pc = "posting"
        /\ At("post", "start")
        /\ DOMAIN stack[j].was_prev \ DOMAIN stack[j].prev_continue # {}
        /\ DOMAIN stack[j].prev_continue \ DOMAIN stack[j].was_prev # {}

\* the chunks of consecutive values of the pipe-joined value orig, limit
\* values each and the last one shorter
ExpectedChunks(orig, limit) ==
    LET values == StrSplit(orig, "|")
        n == Len(values)
    IN  [k \in 1 .. (n + limit - 1) \div limit |->
            StrJoin(SubSeq(values, (k - 1) * limit + 1, Min(k * limit, n)), "|")]

\* C4: after toomanyvalues for a parameter with limit L, the k-th sub-call
\* sends, for that parameter, the k-th chunk of at most L consecutive values
\* of the original value; the sub-calls end after the last chunk, and no
\* request carries the original value again; the bodies of the sub-calls
\* reach the consumer in the order they were served: when it asks for the
\* next body it has yielded every item served so far, in order
C4_Chunks ==
    /\ (/\ \E j \in PacFrames : stack[j].param # None
        /\ Consuming("query_list", "items")
        /\ stack[Consumer].items = <<>>)
       => out = Fresh(0, nitem)
    /\ \A j \in PacFrames :
        LET f == stack[j]
        IN  f.param # None
            => LET chunks == ExpectedChunks(f.orig, f.limit)
                   k == f.i \div f.limit
               IN  /\ f.pc \in {"chunk", "sub"}
                   /\ f.i = k * f.limit
                   /\ k <= Len(chunks)
                   /\ (f.pc = "chunk" /\ f.i >= Len(f.param_values)
                       => k = Len(chunks))
                   /\ (OnWire(j) => sent[f.param] # f.orig)
                   /\ (f.pc = "sub" /\ stack[j + 1].pc = "posting" /\ OnWire(j)
                       => sent[f.param] = chunks[k])

\* the third sub-call for the values a|b|c|d|e and the limit 2 sends e
C4_Witness ==
    \E j \in PacFrames :
        /\ stack[j].orig = Titles(5)
        /\ stack[j].limit = 2
        /\ stack[j].pc = "sub"
        /\ stack[j].i = 6
        /\ OnWire(j)
        /\ sent[stack[j].param] = V("e")

\* the page id and the values of the property of a yielded page object
PageView(page, prop) ==
    [pageid |-> page["pageid"], values |-> PageValues(page, prop)]

\* C3: the pages query_prop yields are the pages of the completed batches,
\* one page object for each page of a batch, yielded only when the round
\* with batchcomplete has arrived, each with the concatenation, in round
\* order, of the values that the rounds of its batch carried for it
C3_BatchMerge ==
    /\ Len(out) <= Len(due)
    /\ \A j \in 1 .. Len(out) :
           j <= Len(due) => PageView(out[j], "revisions") = due[j]
    /\ (status = "stop" => Len(out) = Len(due))

\* C10: every request sent carries format=json, formatversion=2,
\* errorformat=plaintext and maxlag = the configured lag (5)
C10_ForcedParameters ==
    nreq > 0
    => /\ {"format", "formatversion", "errorformat", "maxlag"}
              \subseteq DOMAIN sent
       /\ sent["format"] = V("json")
       /\ sent["formatversion"] = V("2")
       /\ sent["errorformat"] = V("plaintext")
       /\ sent["maxlag"] = V("5")

\* a continuation round is with the server whose continuation object, like
\* the caller's parameters, holds format=xml
C10_Witness ==
    \E j \in PacFrames :
        /\ OnWire(j)
        /\ stack[j].has_prev
        /\ "format" \in DOMAIN stack[j].prev_continue
        /\ stack[j].prev_continue["format"] = V("xml")
        /\ stack[1].fn = "query_list"

\* the token type of the action whose post is running, None when it has none
TokenTypeAt(j) == ACTION_PARAM_TOKEN(ActionOf(Data(stack[j].dref)))[2]

\* C5 (as amended): a lookup of a cached token type sends no request and
\* returns the cached value; a fetch begins only for a type that is not
\* cached; when it returns, at least one request for a token of that type
\* was sent, exactly one if no error response arrived during the fetch and
\* at most one more for each that did; the token fetched is in the cache when
\* the fetch has returned, and a request of a token-bearing action is sent
\* only when a token of its type is cached
C5_TokenCache ==
    /\ [](\A j \in 1 .. Depth :
            stack[j].fn = "tokens" /\ stack[j].pc = "start"
            => stack[j].type \notin DOMAIN tokens)
    /\ [](At("tokens", "fetched")
          => /\ Top.nfetch >= 1
             /\ Top.nfetch <= 1 + (nerr - Top.nerr0)
             /\ IsTokenFetch(sent, Top.type))
    /\ [](At("post", "tokret") \/ At("login", "tokret")
          => LET token_type == IF Top.fn = "login" THEN "login"
                               ELSE TokenTypeAt(Depth)
             IN  token_type \in DOMAIN tokens /\ tokens[token_type] = ret)
    /\ [](At("post", "send") /\ TokenTypeAt(Depth) # None
          => TokenTypeAt(Depth) \in DOMAIN tokens)
    /\ [][stack = <<>> /\ status' = "ok" /\ nops' = nops + 1
          => /\ nreq' = nreq
             /\ tokens' = tokens
             /\ \E token_type \in DOMAIN tokens : ret' = tokens[token_type]]_vars

\* the fetch of a token type that was deleted from the cache has returned,
\* after one request
C5_Witness ==
    /\ At("tokens", "fetched")
    /\ Top.type \in invalid
    /\ Top.nfetch = 1
    /\ Top.type \o "token" \in DOMAIN ret

\* C5 as stated: the fetch of a token type that was deleted from the cache
\* sends exactly one request for a token of that type
C5_OneFetchRequest ==
    At("tokens", "fetched") /\ Top.type \in invalid => Top.nfetch = 1

\* C6: handling badtoken for the module M removes from the token cache the
\* entry of the token type of M and changes no other entry
C6_BadtokenFrame ==
    [][Dispatching("badtoken")
       => LET token_type == ACTION_PARAM_TOKEN(ErrorAt.module)[2]
          IN  /\ token_type \notin DOMAIN tokens'
              /\ DOMAIN tokens' = DOMAIN tokens \ {token_type}
              /\ \A t \in DOMAIN tokens' : tokens'[t] = tokens[t]]_vars

\* badtoken for a module was handled: its token type is gone from the cache
\* and another one is still cached
C6_Witness ==
    /\ At("post", "got")
    /\ HasErrors
    /\ Top.i = 2
    /\ Errors[1].code = "badtoken"
    /\ ACTION_PARAM_TOKEN(Errors[1].module)[2] \in invalid
    /\ ACTION_PARAM_TOKEN(Errors[1].module)[2] \notin DOMAIN tokens
    /\ tokens # EmptyDict

\* the number of the token v among the tokens the server minted
TokenIndex(v) ==
    IF \E n \in 1 .. minted : v = V("T" \o ToString(n))
    THEN CHOOSE n \in 1 .. minted : v = V("T" \o ToString(n))
    ELSE 0

\* the calls of login that repeat a call whose token was rejected
Relogins == {j \in 1 .. Depth : stack[j].fn = "login" /\ stack[j].rejected # NoValue}

\* C7: the call of login that follows WrongToken is made by the call whose
\* token was rejected, and its login request carries the same lgname and
\* lgpassword and a login token minted after the rejected one; when it has
\* returned, the login succeeded and the user is the one of the response;
\* with no other error response the requests were: a token fetch unless
\* a login token was cached, login, token fetch, login
C7_WrongTokenRelogin ==
    /\ \A j \in Relogins :
           /\ j > 1
           /\ stack[j - 1].fn = "login"
           /\ stack[j - 1].pc = "retry"
           /\ stack[j - 1].data["lgtoken"] = stack[j].rejected
           /\ (OnWire(j) /\ ActionOf(sent) = "login"
               => /\ sent["lgtoken"] # stack[j].rejected
                  /\ TokenIndex(sent["lgtoken"]) > TokenIndex(stack[j].rejected)
                  /\ sent["lgname"] = stack[j - 1].data["lgname"]
                  /\ sent["lgpassword"] = stack[j - 1].data["lgpassword"])
    /\ (At("login", "retry")
        => /\ ret["result"] = "Success"
           /\ user = ret["lgusername"]
           /\ (Top.rejected = NoValue /\ nerr = Top.nerr0 + 1
               => nreq = Top.nreq0 + (IF Top.cached0 THEN 3 ELSE 4)))

\* the repeated login succeeded after token fetch, login, token fetch, login
C7_Witness ==
    /\ At("login", "retry")
    /\ Top.rejected = NoValue
    /\ nerr = Top.nerr0 + 1
    /\ nreq = Top.nreq0 + 4
    /\ user = "U"

\* C8: when login has raised LoginError, the last request sent is the login
\* request that reported the result, and the user and the token cache are
\* what they were when that request was sent
C8_LoginError ==
    status = "LoginError"
    => /\ stack = <<>>
       /\ ActionOf(sent) = "login"
       /\ user = atsend.user
       /\ tokens = atsend.tokens

\* LoginError was raised while a user is authenticated and a token cached
C8_Witness == status = "LoginError" /\ user # None /\ tokens # EmptyDict

\* the calls of post that _handle_maxlag_error made
MaxlagRetries == {j \in 1 .. Depth : stack[j].fn = "post" /\ stack[j].via = "maxlag"}

\* C9: the call of post that follows a maxlag error is made by the call that
\* received it, after one sleep of int(retry-after) seconds and before any
\* other request; the request it sends holds every parameter of the failed
\* one with its value, and is identical to it when it is the next request
\* sent; what it returns is what the call that received the error returns
C9_MaxlagRetry ==
    /\ [](\A j \in MaxlagRetries :
            /\ j > 1
            /\ stack[j - 1].fn = "post"
            /\ stack[j - 1].pc = "retried"
            /\ stack[j - 1].dref = stack[j].dref
            /\ Len(slept) > stack[j - 1].nslept
            /\ slept[stack[j - 1].nslept + 1]
                   = StrInt(stack[j - 1].resp.headers["retry-after"])
            /\ (j = Depth /\ stack[j].pc = "start"
                => /\ Len(slept) = stack[j - 1].nslept + 1
                   /\ nreq = stack[j - 1].nsent)
            /\ (j = Depth /\ stack[j].pc = "await"
                => /\ \A k \in DOMAIN stack[j].failed :
                          k \in DOMAIN sent /\ sent[k] = stack[j].failed[k]
                   /\ (stack[j].nsent = stack[j - 1].nsent + 1
                       => sent = stack[j].failed)))
    /\ [][At("post", "retried")
          => ret' = ret /\ stack' = SubSeq(stack, 1, Depth - 1)]_vars

\* the request that failed with maxlag and retry-after 10 is sent again,
\* unchanged, after a sleep of 10 seconds
C9_Witness ==
    \E j \in MaxlagRetries :
        /\ j = Depth
        /\ stack[j].pc = "await"
        /\ stack[j - 1].resp.headers["retry-after"] = <<"1", "0">>
        /\ slept = <<10>>
        /\ sent = stack[j].failed
        /\ nreq = stack[j - 1].nsent + 1

\* C11: a request sent while a user is authenticated carries assertuser with
\* the name of the user authenticated when it was sent, whatever the
\* parameters held before
C11_AssertUser ==
    nreq > 0 /\ atsend.user # None
    => /\ "assertuser" \in DOMAIN sent
       /\ sent["assertuser"] = V(atsend.user)

\* the request repeated after login-required is with the server; its
\* parameters held the assertuser of the user of an earlier login, and the
\* login the handler made authenticated another user
C11_Witness ==
    /\ At("post", "await")
    /\ Top.via = "login-required"
    /\ "assertuser" \in DOMAIN Top.failed
    /\ user # None
    /\ Top.failed["assertuser"] # V(user)
    /\ sent["assertuser"] = V(user)

\* the calls of post that began a login-required action with no user
\* authenticated
AnonPosts == {j \in 1 .. Depth : stack[j].fn = "post" /\ stack[j].anon}

C12_WitnessGiven ==
    /\ Depth \in AnonPosts
    /\ Top.pc = "await"
    /\ Top.given = V("mine")
    /\ sent["token"] = V("mine")
    /\ "patrol" \in DOMAIN tokens

\* every code of the error list l is one without a recovery handler
OnlyUnhandled(l) == \A j \in 1 .. Len(l) : l[j].code \notin HandledCodes

\* C13: while a response whose errors all lack a recovery handler is being
\* dispatched, every step either passes to the next error or, after the
\* last one, ends the operation with APIError carrying the whole error list;
\* no step of it sends a request or changes the user or the token cache
C13_UnhandledErrors ==
    [][At("post", "got") /\ HasErrors /\ OnlyUnhandled(Errors)
       => /\ nreq' = nreq
          /\ sent' = sent
          /\ user' = user
          /\ tokens' = tokens
          /\ \/ /\ Top.i <= Len(Errors)
                /\ stack' = [stack EXCEPT ![Depth].i = @ + 1]
                /\ status' = status
             \/ /\ Top.i = Len(Errors) + 1
                /\ stack' = <<>>
                /\ status' = "APIError"
                /\ raised' = Errors]_vars

\* APIError was raised with a list of two errors, neither with a handler,
\* and the request that received them is the last one sent
C13_Witness ==
    /\ status = "APIError"
    /\ stack = <<>>
    /\ Len(raised) = 2
    /\ OnlyUnhandled(raised)
    /\ raised[1].code # raised[2].code
    /\ ActionOf(sent) = "patrol"

\* the response being dispatched holds one error, badtoken, for a module
\* that the Action-to-Token Table gives a token type
OnlyBadtoken ==
    /\ At("post", "got")
    /\ HasErrors
    /\ Len(Errors) = 1
    /\ Errors[1].code = "badtoken"
    /\ ACTION_PARAM_TOKEN(Errors[1].module)[2] # None

\* C14: a response whose only error is badtoken is the response to the one
\* request this call of post sent for the action (the only request of the
\* call when no token had to be fetched); dispatching it sends nothing: the
\* first step removes the token type of the error's module from the cache
\* and changes nothing else of it, the second ends the operation with
\* APIError carrying the error, the type still absent from the cache
C14_BadtokenNotRetried ==
    /\ [](OnlyBadtoken
          => /\ nreq = Top.nsent
             /\ Top.nsent > Top.nreq0
             /\ (minted = Top.mint0 => Top.nsent = Top.nreq0 + 1)
             /\ Top.i \in {1, 2})
    /\ [][OnlyBadtoken
          => LET token_type == ACTION_PARAM_TOKEN(Errors[1].module)[2]
             IN  /\ nreq' = nreq
                 /\ sent' = sent
                 /\ \/ /\ Top.i = 1
                       /\ token_type \in DOMAIN tokens
                       /\ tokens' = DictPop(tokens, token_type)
                       /\ stack' = [stack EXCEPT ![Depth].i = 2]
                       /\ status' = status
                    \/ /\ Top.i = 2
                       /\ token_type \notin DOMAIN tokens
                       /\ tokens' = tokens
                       /\ stack' = <<>>
                       /\ status' = "APIError"
                       /\ raised' = Errors]_vars

\* APIError was raised for an edit request rejected with badtoken alone; the
\* request was the only one of its call, the csrf token being cached before,
\* and the csrf token is gone from the cache
C14_Witness ==
    /\ status = "APIError"
    /\ stack = <<>>
    /\ Len(raised) = 1
    /\ raised[1].code = "badtoken"
    /\ raised[1].module = "edit"
    /\ ActionOf(sent) = "edit"
    /\ nreq = 2
    /\ minted = 1
    /\ "csrf" \in invalid
    /\ "csrf" \notin DOMAIN tokens

\* C15: the step in which login finds the result Success leaves the token
\* cache empty and the user equal to the lgusername of the response, and
\* returns; the step that follows the return of logout's request leaves the
\* token cache empty and no user authenticated, and returns
C15_LoginLogoutClear ==
    /\ [][At("login", "posted") /\ LoginResult = "Success"
          => /\ tokens' = EmptyDict
             /\ user' = ret["login"]["lgusername"]
             /\ user' # None
             /\ ret' = ret["login"]
             /\ stack' = SubSeq(stack, 1, Depth - 1)]_vars
    /\ [][At("logout", "posted")
          => /\ tokens' = EmptyDict
             /\ user' = None
             /\ stack' = SubSeq(stack, 1, Depth - 1)]_vars

\* logout has returned after a login as U: its request was sent as U with a
\* csrf token cached, and now the cache is empty and no user authenticated
C15_Witness ==
    /\ stack = <<>>
    /\ status = "ok"
    /\ ActionOf(sent) = "logout"
    /\ atsend.user = "U"
    /\ "csrf" \in DOMAIN atsend.tokens
    /\ loggedat.nreq = 2
    /\ tokens = EmptyDict
    /\ user = None

\* login has returned with a token type other than login cached when its
\* request was sent: the cache is empty and the user the one of the response
C15_WitnessLogin ==
    /\ stack = <<>>
    /\ status = "ok"
    /\ ActionOf(sent) = "login"
    /\ "csrf" \in DOMAIN atsend.tokens
    /\ loggedat.nreq = nreq
    /\ tokens = EmptyDict
    /\ user = "W"

\* C16: a post_and_continue whose parameters hold rawcontinue does not get
\* past its first statement: the step it takes ends the operation with
\* NotImplementedError and sends nothing, and no request ever carries
\* rawcontinue
C16_Rawcontinue ==
    /\ [](nreq > 0 => "rawcontinue" \notin DOMAIN sent)
    /\ [](\A j \in PacFrames :
            "rawcontinue" \in DOMAIN Data(stack[j].dref)
            => j = Depth /\ stack[j].pc = "start")
    /\ [][At("pac", "start") /\ "rawcontinue" \in DOMAIN Data(Top.dref)
          => /\ nreq' = nreq
             /\ sent' = sent
             /\ out' = out
             /\ stack' = <<>>
             /\ status' = "NotImplementedError"]_vars

\* the query with rawcontinue has failed and no request was sent
C16_Witness ==
    /\ status = "NotImplementedError"
    /\ stack = <<>>
    /\ nquery = 1
    /\ nreq = 0
    /\ out = <<>>

\* C17: query_meta ends with the first body its query yields: a body with a
\* continuation object ends the operation with AssertionError; any other
\* makes it return json['query'] for siteinfo, json['query']['repos'] for
\* filerepoinfo and json['query'][meta] for any other meta name; the
\* generator is dropped with the call, so no second round is asked for; the
\* step sends nothing, and the body is the answer to the only request of the
\* call when no error response arrived during it
C17_QueryMeta ==
    /\ [](\A j \in 1 .. Depth :
            stack[j].fn = "query_meta"
            => /\ stack[j].pc \in {"start", "wait", "body"}
               /\ (stack[j].pc # "start"
                   => /\ j < Depth
                      /\ stack[j + 1].fn = "pac"
                      /\ stack[j + 1].dref = j
                      /\ stack[j + 1].pc \in {"start", "posting", "yielded"}
                      /\ ~stack[j + 1].has_prev))
    /\ [][Consuming("query_meta", "body")
          => LET c == Consumer
                 meta == stack[c].meta
                 json == Top.json
             IN  /\ nreq' = nreq
                 /\ (nerr = stack[c].nerr0 => nreq = stack[c].nreq0 + 1)
                 /\ IF "continue" \in DOMAIN json
                    THEN stack' = <<>> /\ status' = "AssertionError"
                    ELSE /\ stack' = SubSeq(stack, 1, c - 1)
                         /\ ret' = CASE meta = "siteinfo" -> json["query"]
                                     [] meta = "filerepoinfo"
                                            -> json["query"]["repos"]
                                     [] OTHER -> json["query"][meta]]_vars

\* query_meta('filerepoinfo') has returned the list the body holds under
\* repos, after one request
C17_Witness ==
    /\ stack = <<>>
    /\ status = "ok"
    /\ nops = 1
    /\ nreq = 1
    /\ "meta" \in DOMAIN sent
    /\ sent["meta"] = V("filerepoinfo")
    /\ ret = <<"Commons", "Wikipedia">>

\* query_meta has failed on a body with a continuation object
C17_WitnessContinue ==
    /\ stack = <<>>
    /\ status = "AssertionError"
    /\ nreq = 1
    /\ "meta" \in DOMAIN sent
    /\ sent["meta"] = V("userinfo")

\* C18: a badtoken error for a module whose token type is not in the cache
\* (a module the Action-to-Token Table does not list has none) changes
\* nothing of the cache and lets the dispatch go on to the next error
C18_InvalidateAbsent ==
    [][/\ Dispatching("badtoken")
       /\ ACTION_PARAM_TOKEN(ErrorAt.module)[2] \notin DOMAIN tokens
       => /\ tokens' = tokens
          /\ stack' = [stack EXCEPT ![Depth].i = @ + 1]
          /\ status' = status]_vars

\* the handler of a badtoken error for a module without a cached token type
\* has ended the operation with KeyError
C18_KeyError ==
    /\ status = "KeyError"
    /\ stack = <<>>
    /\ ActionOf(sent) = "options"
    /\ raised = None

\* the frame of the running query_prop has merged a round into its open batch
BatchMerged ==
    /\ Consuming("query_prop", "items")
    /\ stack[Consumer].has_batch

\* C19: after a round is merged into the open batch, every value that an
\* accumulated page holds is a value the server served, in a round of this
\* batch, for the page with the same page id
C19_PageIdentity ==
    BatchMerged
    => LET f == stack[Consumer]
       IN  \A k \in 1 .. Len(f.batch) :
               LET pid == f.batch[k]["pageid"]
                   held == PageValues(f.batch[k], f.prop)
               IN  /\ pid \in DOMAIN acc
                   /\ \A x \in 1 .. Len(held) :
                          \E y \in 1 .. Len(acc[pid]) : acc[pid][y] = held[x]

\* the expected yield of a round with batchcomplete: every page of the
\* round, in its order, with the values of its accumulated counterpart (the
\* page of batch with the same page id) before its own
ExpectedYield(pages, has_batch, batch, prop) ==
    [k \in 1 .. Len(pages) |->
        LET pid == pages[k]["pageid"]
        IN  [pageid |-> pid,
             values |->
                 (IF has_batch /\ pid \in PageIds(batch)
                  THEN PageValues(PageOf(batch, pid), prop) ELSE <<>>)
                 \o PageValues(pages[k], prop)]]

\* C20: the step that takes a round with batchcomplete makes every page of
\* the round the next to be yielded, once and in server order, merged with
\* the accumulated page of the same page id when there is one and as it is
\* when there is none, and leaves the accumulator empty
C20_CompletingRound ==
    [][/\ Consuming("query_prop", "body")
       /\ "query" \in DOMAIN Top.json
       /\ "batchcomplete" \in DOMAIN Top.json
       => LET c == Consumer
              f == stack[c]
              pages == Top.json["query"]["pages"]
              expected == ExpectedYield(pages, f.has_batch, f.batch, f.prop)
              items == stack'[c].items
          IN  /\ Len(items) = Len(expected)
              /\ \A k \in 1 .. Len(items) :
                     k <= Len(expected)
                     => PageView(items[k], f.prop) = expected[k]
              /\ ~stack'[c].has_batch
              /\ stack'[c].batch = <<>>]_vars

\* the codes whose handler gives a result, that of the request it posts again
ResolvingCodes == {"login-required", "maxlag", "notloggedin"}

\* the calls of post whose dispatcher is inside a handler that gives a result
Resolving ==
    {j \in 1 .. Depth :
        stack[j].fn = "post" /\ stack[j].pc \in {"lr_login", "nl_login", "retried"}}

\* a handler that gives a result is being run only for an error that every
\* error before it in the list was passed for, with no handler or with one
\* that returned None
ResolvingInOrder ==
    \A j \in Resolving :
        LET errors == stack[j].resp.json["errors"]
            i == stack[j].i
        IN  /\ i \in 1 .. Len(errors)
            /\ errors[i].code \in ResolvingCodes
            /\ (stack[j].pc = "lr_login" => errors[i].code = "login-required")
            /\ (stack[j].pc = "nl_login" => errors[i].code = "notloggedin")
            /\ \A k \in 1 .. i - 1 :
                   errors[k].code \notin ResolvingCodes \cup {"toomanyvalues"}

\* a step of the dispatcher: the error at hand has no handler, or one that
\* returns None, and the next error is taken; or the handler that gives a
\* result is called for it; or, the last error passed, APIError with the
\* whole list is raised; with raises, it may also end the dispatch with the
\* exception of the handler of one of the codes raises
DispatchStep(raises) ==
    At("post", "got") /\ HasErrors
    => \/ /\ Top.i <= Len(Errors)
          /\ ErrorAt.code \notin ResolvingCodes \cup {"toomanyvalues"}
          /\ stack' = [stack EXCEPT ![Depth].i = @ + 1]
          /\ status' = status
          /\ nreq' = nreq
       \/ /\ Top.i <= Len(Errors)
          /\ ErrorAt.code \in ResolvingCodes
          /\ Len(stack') = Depth + 1
          /\ stack'[Depth].pc \in {"lr_login", "nl_login", "retried"}
          /\ stack'[Depth].i = Top.i
          /\ stack'[Depth].resp = Top.resp
       \/ /\ Top.i <= Len(Errors)
          /\ ErrorAt.code \in raises
          /\ status' \in {"KeyError", "TooManyValuesError"}
          /\ stack' = <<>>
       \/ /\ Top.i = Len(Errors) + 1
          /\ \A k \in 1 .. Len(Errors) : Errors[k].code \notin ResolvingCodes
          /\ stack' = <<>>
          /\ status' = "APIError"
          /\ raised' = Errors

\* the result of the handler is what the dispatcher returns; no later error
\* is looked at and nothing else changes
DispatchReturn ==
    At("post", "retried")
    => /\ stack' = SubSeq(stack, 1, Depth - 1)
       /\ ret' = ret
       /\ tokens' = tokens
       /\ user' = user
       /\ nreq' = nreq

\* C21: the errors of a response are dispatched in list order; the first
\* handler that gives a result ends the dispatch with that result and no
\* handler is run for a later error; a dispatch in which no handler gives a
\* result ends with APIError carrying the whole error list
C21_DispatchOrder ==
    /\ []ResolvingInOrder
    /\ [][DispatchStep({})]_vars
    /\ [][DispatchReturn]_vars

\* the same, but for the dispatches that the handler of badtoken ends with
\* the KeyError of its del
DispatchOrderButKeyError ==
    /\ []ResolvingInOrder
    /\ [][DispatchStep({"badtoken"})]_vars
    /\ [][DispatchReturn]_vars

\* a dispatch in which no handler gave a result has ended with KeyError
C21_KeyError ==
    /\ status = "KeyError"
    /\ stack = <<>>
    /\ nreq > 0
    /\ ActionOf(sent) = "options"

\* the request posted again for the maxlag error of the list (maxlag,
\* badtoken) has returned its result: the handler of badtoken was not run, the
\* token type of its module is still cached
C21_Witness ==
    /\ At("post", "retried")
    /\ Len(Errors) = 2
    /\ Errors[1].code = "maxlag"
    /\ Errors[2].code = "badtoken"
    /\ Top.i = 1
    /\ ACTION_PARAM_TOKEN(Errors[2].module)[2] \in DOMAIN tokens
    /\ "errors" \notin DOMAIN ret

\* the handler of maxlag gave the result for the list (badtoken, maxlag),
\* after the handler of badtoken had returned None
C21_WitnessSecond ==
    /\ At("post", "retried")
    /\ Len(Errors) = 2
    /\ Errors[1].code = "badtoken"
    /\ Errors[2].code = "maxlag"
    /\ Top.i = 2

\* the calls of post that _handle_notloggedin_error made for an action the
\* Action-to-Token Table gives a token parameter
NotloggedinRetries ==
    {j \in 1 .. Depth :
        /\ stack[j].fn = "post"
        /\ stack[j].via = "notloggedin"
        /\ ACTION_PARAM_TOKEN(ActionOf(stack[j].failed))[1] # None}

\* C22: the call of post that follows a notloggedin error on a token-bearing
\* action is made by the call that received the error, after a login that
\* succeeded later than the rejected request was sent; when it begins, the
\* parameters hold every parameter of the rejected request but the action's
\* token parameter; the request it sends carries, in that parameter, a token
\* the server minted after the call began, hence after that login, which is
\* not the token of the rejected request; and what it returns is what the
\* call that received the error returns
C22_NotloggedinRetry ==
    /\ [](\A j \in NotloggedinRetries :
            LET param == ACTION_PARAM_TOKEN(ActionOf(stack[j].failed))[1]
            IN  /\ j > 1
                /\ stack[j - 1].fn = "post"
                /\ stack[j - 1].pc = "retried"
                /\ stack[j - 1].dref = stack[j].dref
                /\ stack[j - 1].resp.json["errors"][stack[j - 1].i].code
                       = "notloggedin"
                /\ param \in DOMAIN stack[j].failed
                /\ loggedat.nreq > stack[j - 1].nsent
                /\ (j = Depth /\ stack[j].pc = "start"
                    => /\ user # None
                       /\ Data(stack[j].dref) = DictPop(stack[j].failed, param))
                /\ (j = Depth /\ stack[j].pc = "await"
                    => /\ stack[j].mint0 >= loggedat.minted
                       /\ param \in DOMAIN sent
                       /\ TokenIndex(sent[param]) > stack[j].mint0
                       /\ sent[param] # stack[j].failed[param]
                       /\ \A k \in DOMAIN stack[j].failed \ {param, "assertuser"} :
                              k \in DOMAIN sent /\ sent[k] = stack[j].failed[k]))
    /\ [][At("post", "retried") /\ Errors[Top.i].code = "notloggedin"
          => ret' = ret /\ stack' = SubSeq(stack, 1, Depth - 1)]_vars

\* the edit request rejected with notloggedin carried a token the server had
\* minted; it is with the server again, with the token minted after the
\* login of the handler
C22_Witness ==
    \E j \in NotloggedinRetries :
        /\ j = Depth
        /\ stack[j].pc = "await"
        /\ ActionOf(sent) = "edit"
        /\ TokenIndex(stack[j].failed["token"]) > 0
        /\ TokenIndex(sent["token"]) > loggedat.minted
        /\ sent["token"] = tokens["csrf"]

\* the result of the edit request sent again after notloggedin has been
\* returned to the call that received the error
C22_WitnessReturned ==
    /\ At("post", "retried")
    /\ Errors[Top.i].code = "notloggedin"
    /\ ActionOf(sent) = "edit"
    /\ ret = [edit |-> [ok |-> TRUE]]
    /\ sent["token"] = tokens["csrf"]

\* the frames of the running operation, or of the generator the caller
\* holds suspended
Frames == IF stack = <<>> THEN gen ELSE stack

\* the generators of post_and_continue that a consumer iterates directly and
\* that no error response has arrived for since they were made
CleanPacs ==
    {j \in 2 .. Len(Frames) :
        /\ Frames[j].fn = "pac"
        /\ Frames[j - 1].fn # "pac"
        /\ nerr = Frames[j].nerr0}

\* the iteration of a list query is past its last body: the generator has
\* yielded a body without continuation object and no chunk of a split
\* parameter is left to query
Ending ==
    /\ Frames # <<>>
    /\ Frames[1].fn = "query_list"
    /\ \A j \in 2 .. Len(Frames) :
           /\ Frames[j].fn = "pac"
           /\ Frames[j].i >= Len(Frames[j].param_values)
           /\ j < Len(Frames) => Frames[j].pc = "sub"
    /\ LET top == Frames[Len(Frames)]
       IN  \/ Len(Frames) = 1 /\ top.pc = "stop"
           \/ /\ Len(Frames) > 1
              /\ top.pc \in {"yielded", "resume"}
              /\ "continue" \notin DOMAIN top.json
           \/ Len(Frames) > 1 /\ top.pc = "chunk"

\* the iteration has ended, normally or with an exception
Ended == stack = <<>> /\ gen = <<>>

\* the steps the iteration is from its end, at most, once it is Ending: two
\* for each item the caller has still to get, one for each generator that
\* has still to return
StepsLeft ==
    LET c == Frames[1]
        top == Frames[Len(Frames)]
    IN  (Len(Frames) - 1)
        + (CASE c.pc = "body" ->
                   2 * (IF "query" \in DOMAIN top.json
                        THEN Len(top.json["query"][c.list]) ELSE 0) + 4
             [] c.pc = "items" ->
                   2 * Len(c.items) + (IF stack = <<>> THEN 4 ELSE 3)
             [] OTHER -> 1)

\* C23: while no error response has arrived, post_and_continue has sent one
\* request for each body it yielded, and one more only while it waits for
\* the body of the round it is in; no request is sent while the consumer (or
\* the caller, the generator suspended) holds a body: the next one is sent
\* when the generator is resumed for the next body; resumed after a body
\* without continuation object, the generator ends without a request and so
\* does the iteration; and the sequence is finite once the server has sent
\* such a body as the last one: from then on a step is always possible until
\* the iteration has ended, and every step brings that end nearer, unless the
\* caller drops the generator for another query
C23_OneRequestPerBody ==
    /\ [](\A j \in CleanPacs :
            LET f == Frames[j]
                n == nreq - f.nreq0
            IN  /\ f.pc \notin {"caught", "chunk", "sub"}
                /\ (f.pc = "start" => n = 0 /\ f.nyield = 0)
                /\ (f.pc \in {"yielded", "resume"} => n = f.nyield /\ n >= 1)
                /\ (f.pc = "posting"
                    => n = f.nyield
                           + (IF j = Len(Frames)
                                 \/ Frames[j + 1].pc \in {"await", "got"}
                              THEN 1 ELSE 0)))
    /\ [][stack = <<>> \/ Suspended => nreq' = nreq /\ sent' = sent]_vars
    /\ [][At("pac", "resume") /\ "continue" \notin DOMAIN Top.json
          => /\ nreq' = nreq
             /\ stack' = [SubSeq(stack, 1, Depth - 1) EXCEPT
                             ![Depth - 1].pc =
                                 IF stack[Depth - 1].fn = "pac" THEN "chunk"
                                 ELSE "stop"]]_vars
    /\ [](Ending => ENABLED NextList)
    /\ [][Ending
          => /\ nreq' = nreq
             /\ \/ Ended'
                \/ Ending' /\ StepsLeft' < StepsLeft
                \/ nquery' = nquery + 1]_vars

\* the caller holds an item of the third body of a list query; three
\* requests were sent and no error response has arrived
C23_Witness ==
    /\ stack = <<>>
    /\ status = "yield"
    /\ Len(gen) \in CleanPacs
    /\ gen[Len(gen)].nyield = 3
    /\ nreq = 3
    /\ "continue" \in DOMAIN gen[Len(gen)].json

\* the iteration has ended after two bodies and two requests, the second
\* body without continuation object
C23_WitnessEnd ==
    /\ status = "stop"
    /\ stack = <<>>
    /\ nreq = 2
    /\ nerr = 0
    /\ Len(out) >= 1

\* the request that a handler submitted again has returned its result, and
\* no error response has arrived since the one the handler was run for
RetryReturned ==
    /\ At("post", "retried")
    /\ nerr = Top.nerrs

\* the requests sent since the request that got the error
ExtraRequests == nreq - Top.nsent

\* 1 when the action of the running post has a token type, else 0
TokenFetches == IF TokenTypeAt(Depth) # None THEN 1 ELSE 0

\* C24 (as amended): when the request submitted again after a recoverable
\* error has returned and no other error response arrived meanwhile, the
\* requests sent since the one that got the error are: for maxlag, one, the
\* request itself again, and one more for the action's token when the
\* handler of a badtoken before it in the list deleted it; for
\* login-required and notloggedin, the login request, the request again, one
\* for the action's token if the action has a token type, and one for the
\* login token unless it was cached; for WrongToken, two, a login token
\* fetch and the login request again
C24_RetryCost ==
    /\ RetryReturned
       => /\ ActionOf(sent) = ActionOf(Data(Top.dref))
          /\ (ErrorAt.code = "maxlag"
              => ExtraRequests
                     = IF \E k \in 1 .. Top.i - 1 : Errors[k].code = "badtoken"
                       THEN 2 ELSE 1)
          /\ (ErrorAt.code \in {"login-required", "notloggedin"}
              => ExtraRequests \in {2 + TokenFetches, 3 + TokenFetches})
    /\ At("login", "retry") /\ Top.rejected = NoValue /\ nerr = Top.nerr0 + 1
       => nreq - Top.nreq0 - (IF Top.cached0 THEN 1 ELSE 2) = 2

\* the edit request rejected with notloggedin was followed by four requests:
\* login token fetch, login, csrf token fetch, and the edit again
C24_Witness ==
    /\ RetryReturned
    /\ ErrorAt.code = "notloggedin"
    /\ ActionOf(sent) = "edit"
    /\ ExtraRequests = 4

\* a request rejected with maxlag was followed by one request, itself again
C24_WitnessMaxlag ==
    /\ RetryReturned
    /\ ErrorAt.code = "maxlag"
    /\ Top.i = 1
    /\ ExtraRequests = 1
    /\ sent = Data(Top.dref)

\* a request rejected with login-required was followed by two requests, the
\* login token being cached and the action without token
C24_WitnessCached ==
    /\ RetryReturned
    /\ ErrorAt.code = "login-required"
    /\ ExtraRequests = 2

\* C24 as stated: a recoverable error is followed by at most one request
\* before the result of the request submitted again is returned
C24_OneExtraRoundTrip ==
    /\ RetryReturned => ExtraRequests <= 1
    /\ At("login", "retry") /\ Top.rejected = NoValue /\ nerr = Top.nerr0 + 1
       => nreq - Top.nreq0 - (IF Top.cached0 THEN 1 ELSE 2) <= 1

\* the keys that only a continuation object of the server brings into the
\* parameters
ContinueKeys == {"continue", "rccontinue"}

\* the first request of the sub-call of a chunk is with the server, the
\* generators that split the parameter having merged no continuation object
\* of their own
FirstOfChunk ==
    /\ At("post", "await")
    /\ Depth >= 4
    /\ stack[Depth - 1].fn = "pac"
    /\ stack[Depth - 1].pc = "posting"
    /\ stack[Depth - 1].nyield = 0
    /\ stack[Depth - 2].fn = "pac"
    /\ stack[Depth - 2].pc = "sub"
    /\ \A j \in 2 .. Depth - 2 : stack[j].fn = "pac" /\ ~stack[j].has_prev

\* C25: the first request of the sub-call of a chunk carries no continuation
\* key: none that the sub-call of an earlier chunk left in the parameters
C25_ChunkFromBeginning ==
    FirstOfChunk => DOMAIN sent \cap ContinueKeys = {}

\* the first request of the sub-call of the second chunk is with the server
C25_SecondChunk ==
    /\ FirstOfChunk
    /\ stack[Depth - 2].i > stack[Depth - 2].limit

\* the calls of post that _handle_login_required_error made for an action
\* the Action-to-Token Table gives a token parameter
LoginRequiredRetries ==
    {j \in 1 .. Depth :
        /\ stack[j].fn = "post"
        /\ stack[j].via = "login-required"
        /\ ACTION_PARAM_TOKEN(ActionOf(stack[j].failed))[1] # None}

\* C26: the request that the call of post following a login-required error
\* on a token-bearing action sends carries, in the action's token parameter,
\* a token the server minted after the call began, hence after the login of
\* the handler, and not the token of the rejected request
C26_LoginRequiredRetry ==
    \A j \in LoginRequiredRetries :
        LET param == ACTION_PARAM_TOKEN(ActionOf(stack[j].failed))[1]
        IN  j = Depth /\ stack[j].pc = "await"
            => /\ param \in DOMAIN sent
               /\ TokenIndex(sent[param]) > stack[j].mint0
               /\ sent[param] # stack[j].failed[param]

\* the edit request rejected with login-required is with the server again
\* after the login of the handler, with the token of the rejected request,
\* while the cache holds the token fetched after the login
C26_StaleToken ==
    \E j \in LoginRequiredRetries :
        /\ j = Depth
        /\ stack[j].pc = "await"
        /\ ActionOf(sent) = "edit"
        /\ loggedat.nreq > stack[j - 1].nsent
        /\ sent["token"] = stack[j].failed["token"]
        /\ TokenIndex(sent["token"]) <= loggedat.minted
        /\ TokenIndex(tokens["csrf"]) > loggedat.minted

\* ------------------------------------------------------------ resumed queries
\* the server of a list query whose caller may log out between two items: the
\* bodies of a list round, and the login-required error that authenticates
\* the configured user through error recovery
ServeResume ==
    Serve(GoodResponses(sent)
          \cup IF nerr < MaxErr
               THEN IncompleteLists(sent)
                    \cup ErrorResponses({<<Error("login-required", "main")>>}, {})
               ELSE {})

\* post's request in a resumed list query
PostSendResume == PostSendUpTo(MaxResumeReq)

\* a list query the caller iterates, logging out while the generator is
\* suspended
NextResume ==
    \/ CallQueryList \/ CallNext \/ CallLogout
    \/ PostSteps \/ PostTokenRet \/ PostSendResume \/ ServeResume
    \/ HandleLoginRequired \/ LoginRequiredRetry \/ HandlerReturn
    \/ LoginStart \/ LoginTokenRet \/ LoginSuccess
    \/ LogoutStart \/ LogoutDone
    \/ TokensMissing \/ TokensStore \/ QueryMetaStart \/ QueryMetaBody
    \/ PacRawcontinue \/ PacStart \/ PacYield \/ PacEnd \/ PacContinue
    \/ QueryListStart \/ QueryListBody \/ QueryListYield \/ QueryListNext
    \/ QueryListStop

SpecResume == Init /\ [][NextResume]_vars

\* C27: a request that is sent while no user is authenticated carries no
\* assertuser parameter, also when its parameter set was sent before while a
\* user was authenticated and the caller logged out since
C27_NoAssertuserWhenAnonymous ==
    nreq > 0 /\ atsend.user = None => "assertuser" \notin DOMAIN sent

\* the round of a continuation sequence that follows a logout is with the
\* server: no user is authenticated and the round before it asserted one
C27_ResumedAfterLogout ==
    /\ At("post", "await")
    /\ user = None
    /\ "list" \in DOMAIN sent
    /\ "continue" \in DOMAIN sent
    /\ "assertuser" \in DOMAIN sent

\* C28: every token the cache holds was fetched after the most recent
\* successful login or logout, also a token whose fetch was answered with an
\* error that made the core log in
C28_CacheAfterLoginOrLogout ==
    \A token_type \in DOMAIN tokens :
        TokenIndex(tokens[token_type]) > loggedat.cleared

\* the fetch of an edit's csrf token made the core log in, and the token
\* the cache holds then was fetched after that login
C28_Witness ==
    /\ At("post", "tokret")
    /\ Top.via = "call"
    /\ ActionOf(Data(Top.dref)) = "edit"
    /\ loggedat.nreq > Top.nreq0
    /\ loggedat.cleared > 0
    /\ "csrf" \in DOMAIN tokens
    /\ tokens["csrf"] = ret

\* a token is cached after a logout that cleared a cache holding one
C28_WitnessLogout ==
    /\ user = None
    /\ loggedat.cleared > loggedat.minted
    /\ tokens # EmptyDict

====
